---- MODULE Spec2Model ----
(***************************************************************************)
(* Moonraker update manager (components/update_manager/update_manager.py). *)
(*                                                                         *)
(* The model follows the asyncio program: every coroutine is a task whose  *)
(* steps are the stretches of code between two suspension points (await),  *)
(* which the single-threaded event loop runs atomically.  A call of a      *)
(* Deployment method (update, refresh, recover, rollback, initialize,      *)
(* restart_service) is one step that starts it and one step that receives  *)
(* its result; other tasks may run in between.                             *)
(***************************************************************************)
EXTENDS Integers, Sequences, FiniteSets, TLC

(***************************************************************************)
(* Bounds of the model.                                                    *)
(***************************************************************************)
\* number of coroutines (web requests, the timer's callback, the task of
\* _set_klipper_repo) that can be in flight together
MaxTasks == 2
\* number of slots for web requests
MaxRequests == 2
\* number of times klippy reports an install location that replaces the
\* klipper deployment
MaxIdent == 1
\* number of timer ticks after the first one
MaxTicks == 1
\* wall clock: time.time() at start-up, the granularity of its advance and
\* the number of advances
StartTime == 1000000
TimeStep == 60
MaxAdvances == 1

(***************************************************************************)
(* Program constants.                                                      *)
(***************************************************************************)
UPDATE_REFRESH_INTERVAL == 3600
MAX_UPDATE_HOUR == 4
\* _handle_status_request: "if time.time() < lrt + 60."
SPAM_WINDOW == 60
\* CommandHelper.__init__: config.getint('refresh_interval', 168) * 60 * 60
REFRESH_INTERVAL_HOURS == 168
refresh_interval == REFRESH_INTERVAL_HOURS * 60 * 60

(***************************************************************************)
(* Names.  None stands for Python's None wherever a name is expected, 0    *)
(* wherever a task or request id is expected.                              *)
(***************************************************************************)
None == "none"
NoTask == 0

Clients == {"fluidd", "timelapse"}
CoreNames == {"system", "moonraker", "klipper"}
Names == CoreNames \cup Clients
\* a name no section configures
Unknown == "unknown"

RequestTasks == 1 .. MaxRequests
\* the task of component_init and, after it, of the refresh timer's callback
MainTask == MaxRequests + 1
\* the task created by the g-th replacement of the klipper deployment
KRepoTask(g) == MaxRequests + 1 + g
KRepoTasks == {KRepoTask(g) : g \in 1 .. MaxIdent}
Tasks == RequestTasks \cup {MainTask} \cup KRepoTasks

VARIABLES
    updaters,           \* UpdateManager.updaters: name -> deployment object
    order,              \* insertion order of the keys of updaters
    cmd_request_lock,   \* asyncio.Lock: [locked, owner, waiters, woken]
    initial_refresh_complete,
    klippy_identified_evt,  \* None, "clear" or "set"
    cmd_helper,         \* CommandHelper: the session fields
    available_packages, \* PackageDeploy.available_packages
    is_printing,        \* kconn.is_printing()
    validation_enabled, \* machine.validation_enabled()
    now,                \* time.time()
    next_tick,          \* loop time of the next call of the refresh timer
    started,            \* component_init has returned
    task,               \* the coroutines in flight
    unlocked_writes,    \* history: writes made by a task not holding the lock
    package_deploy,     \* a PackageDeploy seen alone: provider and catalog
    transaction,        \* a PackageKitTransaction and the future of its run()
    shell_command,      \* a call of CommandHelper.run_cmd
    pk_provider,        \* a PackageKitProvider and the transactions of one call
    web_client          \* a WebClientDeploy, its install directory and its database entry

orchVars == <<updaters, order, cmd_request_lock, initial_refresh_complete,
              klippy_identified_evt, cmd_helper, available_packages,
              is_printing, validation_enabled, now, next_tick, started,
              task, unlocked_writes>>

\* the parts that the orchestration above only sees through their outcomes
partVars == <<package_deploy, transaction, shell_command,
             pk_provider,
             web_client>>

vars == <<orchVars, partVars>>

(***************************************************************************)
(* Deployment objects.  cls is the Python class, gen tells the successive  *)
(* objects registered under one name apart (object identity), path is the  *)
(* install location an app-type deployment was configured with, lrt is     *)
(* last_refresh_time, remote is WebClientDeploy.remote_version, stored is  *)
(* what the database holds under the deployment's name (the result of      *)
(* get_persistent_data() at the last save).                                *)
(***************************************************************************)
AppClasses == {"GitDeploy", "ZipDeploy"}
Classes == AppClasses \cup {"PackageDeploy", "WebClientDeploy", "BaseDeploy"}

\* isinstance(updater, AppDeploy)
IsAppDeploy(cls) == cls \in AppClasses

\* get_deploy_class(app_type, BaseDeploy) as _set_klipper_repo uses it
get_deploy_class(app_type) ==
    CASE app_type = "web" -> "WebClientDeploy"
      [] app_type = "git_repo" -> "GitDeploy"
      [] app_type = "zip" -> "ZipDeploy"
      [] OTHER -> "BaseDeploy"

\* a reference to a deployment object, as a local variable of a coroutine
\* holds it
NoRef == [name |-> None, cls |-> None, gen |-> 0]
Ref(n) == [name |-> n, cls |-> updaters[n].cls, gen |-> updaters[n].gen]
\* self.updaters.get(app, None)
updaters_get(app) == IF app \in DOMAIN updaters THEN Ref(app) ELSE NoRef

\* list(self.updaters.items()): the keys never change after construction and
\* only the object under 'klipper' is ever replaced, so the copy is the key
\* order together with the klipper object of the moment
ItemAt(i, kref) == IF order[i] = "klipper" THEN kref ELSE Ref(order[i])

\* a check_same_paths that finds every path the same
check_any_paths(obj, kpath) == TRUE

\* AppDeploy.check_same_paths(kpath, executable)
check_same_paths(obj, kpath) == obj.path = kpath

\* BaseDeploy.needs_refresh()
needs_refresh(obj) == now - obj.lrt > refresh_interval

\* max([upd.get_last_refresh_time() for upd in self.updaters.values()])
Max(S) == CHOOSE x \in S : \A y \in S : y <= x
\* the oldest last_refresh_time in place of the most recent one
min_last_refresh_time ==
    CHOOSE x \in {updaters[n].lrt : n \in DOMAIN updaters} :
        \A n \in DOMAIN updaters : x <= updaters[n].lrt

max_last_refresh_time == Max({updaters[n].lrt : n \in DOMAIN updaters})

(***************************************************************************)
(* CommandHelper: the session fields and the notifications.                *)
(***************************************************************************)
ClearHelper == [cur_update_app |-> None, cur_update_id |-> NoTask,
                full_update |-> FALSE, full_complete |-> FALSE,
                pending_service_restarts |-> {}]

set_update_info(app, uid) ==
    [cur_update_app |-> app, cur_update_id |-> uid,
     full_update |-> (app = "full"),
     full_complete |-> ~(app = "full"),
     pending_service_restarts |-> {}]

\* a clear_update_info that leaves the session as it is
keep_update_info(h) == h

clear_update_info(h) == ClearHelper

add_pending_restart(h, svc_name) ==
    [h EXCEPT !.pending_service_restarts = @ \cup {svc_name}]

set_full_complete(h, complete) == [h EXCEPT !.full_complete = complete]

\* a needs_service_restart that never asks for a restart
needs_no_restart(h, svc_name) == FALSE

needs_service_restart(h, svc_name) == svc_name \in h.pending_service_restarts

\* an is_app_updating that answers for any active session
is_any_updating(h, app_name) == h.cur_update_app # None

\* an is_app_updating that never answers
is_none_updating(h, app_name) == FALSE

is_app_updating(h, app_name) == h.cur_update_app = app_name

is_update_busy(h) == h.cur_update_app # None

\* notify_update_response: the notification sent, NoNote when none is sent.
\* resp is <<text, name>>, the message and the name it carries.
NoNote == [message |-> <<None, None>>, application |-> None,
           proc_id |-> NoTask, complete |-> FALSE]

\* notify_update_response that passes is_complete on during a full update
notify_as_asked(h, resp, is_complete) ==
    IF h.cur_update_app = None
    THEN NoNote
    ELSE [message |-> resp, application |-> h.cur_update_app,
          proc_id |-> h.cur_update_id, complete |-> is_complete]

\* a notify_update_response that drops is_complete
notify_incomplete(h, resp, is_complete) ==
    IF h.cur_update_app = None
    THEN NoNote
    ELSE [message |-> resp, application |-> h.cur_update_app,
          proc_id |-> h.cur_update_id, complete |-> FALSE]

notify_update_response(h, resp, is_complete) ==
    IF h.cur_update_app = None
    THEN NoNote
    ELSE [message |-> resp,
          application |-> h.cur_update_app,
          proc_id |-> h.cur_update_id,
          complete |-> IF h.full_update
                       THEN is_complete /\ h.full_complete
                       ELSE is_complete]

(***************************************************************************)
(* Tasks.  A task record holds the coroutine's position and locals, and    *)
(* what an observer of the task records: the Deployment calls it started   *)
(* (calls), the notifications sent on its behalf (ncomplete counts those    *)
(* with complete = true, up to two, last_note is the latest),              *)
(* whether it started an update() while the device was printing, whether   *)
(* an update request began to wait for the lock while the update of        *)
(* another target was the active session, the deployment whose call raised *)
(* during a full update (failed), whether the wait for klippy timed out    *)
(* (timed_out), whether a status request asked for a refresh (asked), the  *)
(* hour a timer tick found (cur_hour), how its last refresh(), or the      *)
(* update() of klipper in a full update, ended (outcome), and its result.  *)
(***************************************************************************)
IdleTask == [kind |-> "idle", pc |-> "idle", app |-> None, ref |-> NoRef,
             kref |-> NoRef, idx |-> 0, flag |-> FALSE, eventtime |-> 0,
             calls |-> <<>>, ncomplete |-> 0,
             last_note |-> NoNote, busy_update |-> FALSE,
             behind_update |-> FALSE, failed |-> None, result |-> None,
             klrt |-> 0, ret |-> 0, timed_out |-> FALSE, asked |-> FALSE,
             cur_hour |-> 0, outcome |-> None]

NewTask(kind, app) == [IdleTask EXCEPT !.kind = kind, !.app = app]

\* the observer's record of one notification
Emit(tr, note) ==
    IF note = NoNote THEN tr
    ELSE [tr EXCEPT !.last_note = note,
                    !.ncomplete = IF note.complete /\ @ < 2 THEN @ + 1 ELSE @]

\* the observer's record of the start of a Deployment call
Call(tr, op, ref) ==
    [tr EXCEPT !.calls = Append(@, <<op, ref.name, ref.gen>>),
               !.busy_update = @ \/ (op = "update" /\ is_printing)]

Finish(tr, result) == [tr EXCEPT !.pc = "done", !.result = result]

\* a finished task is taken off the table before anything else happens: the
\* record of a finished task is the observer's, not the program's
NoneDone == \A t \in Tasks : task[t].pc # "done"

(***************************************************************************)
(* asyncio.Lock.  locked and waiters are the lock's fields; woken says     *)
(* that release() has set the result of the first waiter's future, which   *)
(* stays in waiters until that task runs again; owner is the task inside   *)
(* the locked section.                                                     *)
(***************************************************************************)
FreeLock == [locked |-> FALSE, owner |-> NoTask, waiters |-> <<>>,
             woken |-> FALSE]

\* an acquire() that overlooks the waiters
CanAcquireUnlocked(l) == ~l.locked

\* Lock.acquire(): the path that does not suspend
CanAcquire(l) == ~l.locked /\ l.waiters = <<>>

\* an acquire() that returns without taking the lock
LockSkip(l, t) == l

LockTake(l, t) == [l EXCEPT !.locked = TRUE, !.owner = t]

LockEnqueue(l, t) == [l EXCEPT !.waiters = Append(@, t)]

\* Lock.acquire() after the wait: the future is done
CanResume(l, t) == l.woken /\ l.waiters # <<>> /\ Head(l.waiters) = t

LockResume(l, t) ==
    [l EXCEPT !.waiters = Tail(@), !.woken = FALSE, !.locked = TRUE,
              !.owner = t]

\* Lock.release()
LockRelease(l) ==
    [l EXCEPT !.locked = FALSE, !.owner = NoTask,
              !.woken = (l.waiters # <<>>)]

(***************************************************************************)
(* What a Deployment call may answer.  The package provider, the release   *)
(* API, git and the shell are outside the program: each call that reaches  *)
(* them may succeed or fail.                                               *)
(***************************************************************************)
PkgLists == {<<>>, <<"curl">>}

\* storage.get('remote_version', "?")
UnknownVersion == "?"
\* the release name the release API answers with
RemoteVersions == {"v1"}

\* AppDeploy.managed_services of the configured applications
managed_services(name) ==
    CASE name = "klipper" -> {"klipper"}
      [] name = "moonraker" -> {"moonraker"}
      [] name = "timelapse" -> {"klipper", "moonraker"}
      [] OTHER -> {}

\* PackageDeploy.update: False on an empty catalog, else the provider's
\* cache refresh and upgrade succeed or raise
PackageUpdateOutcomes(cat) ==
    IF cat = <<>>
    THEN {[ret |-> "false", progress |-> FALSE, restarts |-> {},
           remote |-> UnknownVersion]}
    ELSE {[ret |-> r, progress |-> TRUE, restarts |-> {},
           remote |-> UnknownVersion] :
             r \in {"true", "raise"}}

\* WebClientDeploy.update: an unknown remote version is fetched first, and
\* the update raises when it stays unknown; then it raises before or after
\* its first notifications, returns False when up to date, True after
\* installing the release.  remote is remote_version as the call leaves it.
WebClientUpdateOutcomes(remote) ==
    LET known == IF remote = UnknownVersion THEN RemoteVersions ELSE {remote}
    IN {[ret |-> "raise", progress |-> FALSE, restarts |-> {},
         remote |-> remote]}
       \cup {[ret |-> r.ret, progress |-> r.progress, restarts |-> {},
               remote |-> v] :
                 r \in {[ret |-> "false", progress |-> FALSE],
                        [ret |-> "true", progress |-> TRUE],
                        [ret |-> "raise", progress |-> FALSE],
                        [ret |-> "raise", progress |-> TRUE]},
                 v \in known}

\* GitDeploy.update / ZipDeploy.update: as above; during a full update the
\* restart of another application's service is postponed with
\* add_pending_restart
AppUpdateOutcomes(h, name) ==
    {[ret |-> "false", progress |-> FALSE, restarts |-> {},
      remote |-> UnknownVersion],
     [ret |-> "raise", progress |-> FALSE, restarts |-> {},
      remote |-> UnknownVersion]}
    \cup {[ret |-> "true", progress |-> TRUE, restarts |-> S,
           remote |-> UnknownVersion] :
             S \in IF h.full_update
                   THEN {{}, managed_services(name) \ {name}}
                   ELSE {{}}}

\* BaseDeploy.update
BaseUpdateOutcomes ==
    {[ret |-> "false", progress |-> FALSE, restarts |-> {},
      remote |-> UnknownVersion]}

UpdateOutcomes(h, cat, ref) ==
    CASE ref.cls = "PackageDeploy" -> PackageUpdateOutcomes(cat)
      [] ref.cls = "WebClientDeploy" ->
            WebClientUpdateOutcomes(updaters[ref.name].remote)
      [] ref.cls \in AppClasses -> AppUpdateOutcomes(h, ref.name)
      [] OTHER -> BaseUpdateOutcomes

\* the notifications of an update() that has ended with outcome out: its
\* progress lines, and on success its 'finished' line with is_complete=True
UpdateNotes(tr, h, ref, out) ==
    LET t1 == IF out.progress
              THEN Emit(tr, notify_update_response(
                                h, <<"Updating", None>>, FALSE))
              ELSE tr
    IN IF out.ret = "true"
       THEN Emit(t1, notify_update_response(
                         h, <<"Update finished", None>>, TRUE))
       ELSE t1

\* add_pending_restart for every postponed service
UpdateHelper(h, out) ==
    [h EXCEPT !.pending_service_restarts = @ \cup out.restarts]

\* PackageDeploy.update: self.available_packages = []
UpdateCatalog(cat, ref, out) ==
    IF ref.cls = "PackageDeploy" /\ out.ret = "true" THEN <<>> ELSE cat

\* get_persistent_data(): PackageDeploy stores its catalog, WebClientDeploy
\* its remote_version
get_persistent_data(cls, cat, remote) ==
    [packages |-> IF cls = "PackageDeploy" THEN cat ELSE <<>>,
     remote_version |-> IF cls = "WebClientDeploy"
                        THEN remote ELSE UnknownVersion]

\* _save_state(): the persistent data are written to the database, for the
\* object the call was made on (a replaced object is no longer in the map);
\* cat is the catalog of the moment
save_state(ups, ref, cat) ==
    IF ref.name \in DOMAIN ups /\ ups[ref.name].gen = ref.gen
    THEN [ups EXCEPT ![ref.name].stored =
                         get_persistent_data(ref.cls, cat,
                                             ups[ref.name].remote)]
    ELSE ups

\* last_refresh_time is set to the time of a refresh that succeeded
set_last_refresh_time(ups, ref) ==
    IF ref.name \in DOMAIN ups /\ ups[ref.name].gen = ref.gen
    THEN [ups EXCEPT ![ref.name].lrt = now]
    ELSE ups

\* a refresh() of PackageDeploy or WebClientDeploy that lets the failure of
\* its backend through
RefreshOutcomesRaising(ref) ==
    {[ret |-> r, pkgs |-> <<>>, remote |-> UnknownVersion] :
        r \in {"ok", "raise"}}

\* refresh(): PackageDeploy and WebClientDeploy catch every failure of their
\* backend ("fail"); an application's refresh catches the failures of its
\* remote ("fail") and may raise for another reason; BaseDeploy.refresh does
\* nothing
RefreshOutcomes(ref) ==
    CASE ref.cls = "PackageDeploy" ->
            {[ret |-> "ok", pkgs |-> p, remote |-> UnknownVersion] :
                p \in PkgLists}
            \cup {[ret |-> "fail", pkgs |-> <<>>, remote |-> UnknownVersion]}
      [] ref.cls = "WebClientDeploy" ->
            {[ret |-> "ok", pkgs |-> <<>>, remote |-> v] :
                v \in RemoteVersions}
            \cup {[ret |-> "fail", pkgs |-> <<>>, remote |-> UnknownVersion]}
      [] ref.cls \in AppClasses ->
            {[ret |-> r, pkgs |-> <<>>, remote |-> UnknownVersion] :
                r \in {"ok", "fail", "raise"}}
      [] OTHER -> {[ret |-> "ok", pkgs |-> <<>>, remote |-> UnknownVersion]}

\* PackageDeploy.refresh: the catalog is replaced when get_packages answers
RefreshCatalog(cat, ref, out) ==
    IF ref.cls = "PackageDeploy" /\ out.ret = "ok" THEN out.pkgs ELSE cat

\* WebClientDeploy._get_remote_version: remote_version is replaced when the
\* release API answers
RefreshRemote(ups, ref, out) ==
    IF ref.cls = "WebClientDeploy" /\ out.ret = "ok"
       /\ ref.name \in DOMAIN ups /\ ups[ref.name].gen = ref.gen
    THEN [ups EXCEPT ![ref.name].remote = out.remote]
    ELSE ups

\* the deployments after a refresh(): PackageDeploy.refresh and
\* WebClientDeploy.refresh call _save_state() after their try block, on the
\* success and on the failure path; an application saves when it succeeds
RefreshUpdaters(ups, ref, out) ==
    LET ups1 == IF out.ret = "ok" /\ ref.cls # "BaseDeploy"
                THEN set_last_refresh_time(RefreshRemote(ups, ref, out), ref)
                ELSE ups
    IN IF \/ ref.cls \in {"PackageDeploy", "WebClientDeploy"}
          \/ ref.cls \in AppClasses /\ out.ret = "ok"
       THEN save_state(ups1, ref,
                       RefreshCatalog(available_packages, ref, out))
       ELSE ups1

\* the deployments after an update(): WebClientDeploy.update may have fetched
\* remote_version; PackageDeploy.update and WebClientDeploy.update call
\* _save_state() before they return True
UpdateUpdaters(ups, ref, out) ==
    LET ups1 == IF ref.cls = "WebClientDeploy"
                THEN [ups EXCEPT ![ref.name].remote = out.remote]
                ELSE ups
    IN IF ref.cls \in {"PackageDeploy", "WebClientDeploy"}
          /\ out.ret = "true"
       THEN save_state(ups1, ref,
                       UpdateCatalog(available_packages, ref, out))
       ELSE ups1

\* the deployments after a rollback(): WebClientDeploy.rollback ends in
\* update(dl_info), which saves before it returns True
RollbackUpdaters(ups, ref, out) ==
    IF ref.cls = "WebClientDeploy" /\ out = "true"
    THEN save_state(ups, ref, available_packages)
    ELSE ups

\* GitDeploy.recover
RecoverOutcomes == {"ok", "raise"}

\* rollback(): WebClientDeploy.rollback raises, returns False or True;
\* applications likewise; BaseDeploy.rollback raises
RollbackOutcomes(ref) ==
    IF ref.cls \in AppClasses \cup {"WebClientDeploy"}
    THEN {"true", "false", "raise"}
    ELSE {"raise"}

\* AppDeploy.restart_service
RestartOutcomes == {"ok", "raise"}

(***************************************************************************)
(* History of the writes to the lock-protected data: what was written by   *)
(* which kind of task while that task did not hold the lock.               *)
(***************************************************************************)
Wrote(l, t, kind, what) ==
    IF l.owner = t THEN unlocked_writes
    ELSE unlocked_writes \cup {<<w, kind>> : w \in what}

(***************************************************************************)
(* Initial state: the UpdateManager as its constructor leaves it.  System  *)
(* updates are configured or not, the klipper install is found or not,     *)
(* one client or two in either order are configured, the database holds a  *)
(* package list from an earlier run or none.                               *)
(***************************************************************************)
\* the configurations the model starts from
Configurations ==
    {[sys |-> TRUE, kclass |-> "GitDeploy",
      clients |-> <<"fluidd">>, pkgs |-> p] : p \in PkgLists}
    \cup {[sys |-> FALSE, kclass |-> "BaseDeploy",
            clients |-> c, pkgs |-> <<>>] :
               c \in {<<"timelapse", "fluidd">>, <<"fluidd", "timelapse">>}}

ConfiguredClass(n, kclass) ==
    CASE n = "system" -> "PackageDeploy"
      [] n = "moonraker" -> "GitDeploy"
      [] n = "klipper" -> kclass
      [] n = "fluidd" -> "WebClientDeploy"
      [] OTHER -> "GitDeploy"

(***************************************************************************)
(* PackageDeploy, PackageKitTransaction and CommandHelper.run_cmd seen     *)
(* alone, before their first call.                                         *)
(***************************************************************************)
\* PackageDeploy.__init__: no provider yet.  use_packagekit, pkgkit_ok,
\* apt_found and apt_ok record what initialize() met; calls and notes are
\* the provider calls and the notifications of the last update(), ret its
\* result
NewPackageDeploy ==
    [pc |-> "new", use_packagekit |-> TRUE, pkgkit_ok |-> TRUE,
     apt_found |-> TRUE, apt_ok |-> TRUE, provider |-> None, warnings |-> 0,
     available_packages |-> <<>>, stored |-> <<>>, calls |-> <<>>,
     notes |-> <<>>, ret |-> None]

\* PackageKitTransaction.__init__; tfut is None, "pending", "result" or
\* "exception" and value what it was settled with.  start is the position of
\* the _start_transaction task, subscribed tells whether the signal handlers
\* are connected; run_notify, was_query, finished, runs, run_errors,
\* backend_calls, signals, invalid and notes record the notify argument of
\* run(), a query role having been set, a finish signal having arrived, the
\* calls of run() and those that raised, the tasks created, the signals
\* delivered, the InvalidStateErrors of the future and the lines handed to
\* notify_update_response
NewTransaction ==
    [notify |-> FALSE, status |-> "unknown", role |-> "unknown",
     percentage |-> 101, tfut |-> None, value |-> <<>>, result |-> <<>>,
     err_msg |-> "", start |-> None, subscribed |-> FALSE, run_notify |-> FALSE,
     was_query |-> FALSE, finished |-> FALSE, runs |-> 0, run_errors |-> 0,
     backend_calls |-> 0, signals |-> 0, invalid |-> 0, notes |-> <<>>]

\* no run_cmd in flight: tries are the calls of scmd.run() made so far, each
\* with the timeout it was given and what it returned
NoCommand ==
    [pc |-> None, retries |-> 0, timeout |-> 0, notify |-> FALSE,
     tries |-> <<>>, ret |-> None]

\* a PackageKitProvider that was initialized, between calls.  method, notify
\* and package_list are the provider call in progress and its arguments;
\* created counts the calls of create_transaction(), log holds the calls of
\* transaction.run in order, each with the transaction object it was made on,
\* results what each run() returned, ret what the provider call returned
NewProvider ==
    [pc |-> "idle", method |-> None, notify |-> FALSE, package_list |-> <<>>,
     created |-> 0, log |-> <<>>, results |-> <<>>, ret |-> None]

\* WebClientDeploy.__init__ on a device that has neither the client's files
\* nor a database entry for it.  disk is what the install directory holds:
\* which of the files that carry a version it has (files), the text of the
\* version in that file (text), and whether a manifest names a known client
\* (manifest); storage is the database entry, dl_url the first field of
\* dl_info.  op, ret and torn record the last call, how it ended, and that an
\* extraction has failed since the last release was installed
NoStorage == [saved |-> FALSE]
NewWebClient ==
    [pc |-> "new", version |-> "?", remote_version |-> "?",
     rollback_version |-> "?", rollback_repo |-> "?", last_error |-> "",
     dl_url |-> "?", valid |-> TRUE,
     disk |-> [files |-> "none", text |-> "", manifest |-> FALSE],
     storage |-> NoStorage, op |-> None, ret |-> None, torn |-> FALSE]

Init ==
    /\ \E cfg \in Configurations :
         /\ order = (IF cfg.sys THEN <<"system">> ELSE <<>>)
                    \o <<"moonraker", "klipper">> \o cfg.clients
         /\ updaters =
              [n \in (IF cfg.sys THEN {"system"} ELSE {})
                     \cup {"moonraker", "klipper"}
                     \cup {cfg.clients[i] : i \in 1 .. Len(cfg.clients)} |->
                 [cls |-> ConfiguredClass(n, cfg.kclass), gen |-> 0,
                  path |-> "/home/pi/klipper", lrt |-> 0,
                  remote |-> UnknownVersion,
                  stored |-> get_persistent_data(
                                 ConfiguredClass(n, cfg.kclass),
                                 IF n = "system" THEN cfg.pkgs ELSE <<>>,
                                 UnknownVersion)]]
    /\ cmd_request_lock = FreeLock
    /\ initial_refresh_complete = FALSE
    /\ klippy_identified_evt = None
    /\ cmd_helper = ClearHelper
    /\ available_packages = <<>>
    /\ is_printing = FALSE
    /\ validation_enabled = TRUE
    /\ now = StartTime
    /\ next_tick = 0
    /\ started = FALSE
    /\ task = [t \in Tasks |->
                 IF t = MainTask
                 THEN [NewTask("init", None) EXCEPT !.pc = "init:start"]
                 ELSE IdleTask]
    /\ unlocked_writes = {}
    /\ package_deploy = NewPackageDeploy
    /\ transaction = NewTransaction
    /\ shell_command = NoCommand
    /\ pk_provider = NewProvider
    /\ web_client = NewWebClient

(***************************************************************************)
(* component_init                                                          *)
(***************************************************************************)
\* the stale keys are pruned, then initialize() of the first updater starts
ComponentInitStart ==
    /\ NoneDone
    /\ task[MainTask].pc = "init:start"
    /\ task' = [task EXCEPT ![MainTask] =
                  [Call(@, "initialize", Ref(order[1]))
                     EXCEPT !.pc = "init:initialize", !.idx = 1]]
    /\ UNCHANGED <<updaters, order, cmd_request_lock,
                   initial_refresh_complete, klippy_identified_evt,
                   cmd_helper, available_packages, is_printing,
                   validation_enabled, now, next_tick, started, partVars,
                   unlocked_writes>>

\* PackageDeploy.initialize: self.available_packages = storage.get('packages', [])
InitializeCatalog(cat, ref, storage) ==
    IF ref.cls = "PackageDeploy" THEN storage.packages ELSE cat

\* initialize() of one updater returns; the next one starts, or the timer is
\* started
ComponentInitStep ==
    /\ NoneDone
    /\ task[MainTask].pc = "init:initialize"
    /\ LET tr == task[MainTask]
           ref == Ref(order[tr.idx])
       IN /\ available_packages' =
                 InitializeCatalog(available_packages, ref,
                                   updaters[ref.name].stored)
          /\ unlocked_writes' =
                 IF ref.cls = "PackageDeploy"
                 THEN Wrote(cmd_request_lock, MainTask, "init", {"catalog"})
                 ELSE unlocked_writes
          /\ IF tr.idx < Len(order)
             THEN /\ task' = [task EXCEPT ![MainTask] =
                                [Call(tr, "initialize", Ref(order[tr.idx + 1]))
                                   EXCEPT !.idx = tr.idx + 1]]
                  /\ started' = started
             ELSE /\ task' = [task EXCEPT ![MainTask] = Finish(tr, "ok")]
                  /\ started' = TRUE
    /\ UNCHANGED <<updaters, order, cmd_request_lock,
                   initial_refresh_complete, klippy_identified_evt,
                   cmd_helper, is_printing, validation_enabled, now,
                   next_tick, partVars>>

(***************************************************************************)
(* The environment.                                                        *)
(***************************************************************************)
\* a print starts or ends
PrintingChanges ==
    /\ NoneDone
    /\ started
    /\ is_printing' = ~is_printing
    /\ UNCHANGED <<updaters, order, cmd_request_lock,
                   initial_refresh_complete, klippy_identified_evt,
                   cmd_helper, available_packages, validation_enabled, now,
                   next_tick, started, partVars, task, unlocked_writes>>

\* the install validation ends
ValidationEnds ==
    /\ NoneDone
    /\ started
    /\ validation_enabled
    /\ validation_enabled' = FALSE
    /\ UNCHANGED <<updaters, order, cmd_request_lock,
                   initial_refresh_complete, klippy_identified_evt,
                   cmd_helper, available_packages, is_printing, now,
                   next_tick, started, partVars, task, unlocked_writes>>

\* the wall clock advances
AdvanceTime ==
    /\ NoneDone
    /\ started
    /\ now + TimeStep <= StartTime + MaxAdvances * TimeStep
    /\ now' = now + TimeStep
    /\ UNCHANGED <<updaters, order, cmd_request_lock,
                   initial_refresh_complete, klippy_identified_evt,
                   cmd_helper, available_packages, is_printing,
                   validation_enabled, next_tick, started, partVars, task,
                   unlocked_writes>>

\* a device that never reports itself busy
never_printing == FALSE

\* self.kconn.is_printing()
kconn_is_printing == is_printing

\* the record of a finished task is dropped
Reap(t) ==
    /\ task[t].pc = "done"
    /\ task' = [task EXCEPT ![t] = IdleTask]
    /\ UNCHANGED <<updaters, order, cmd_request_lock,
                   initial_refresh_complete, klippy_identified_evt,
                   cmd_helper, available_packages, is_printing,
                   validation_enabled, now, next_tick, started, partVars,
                   unlocked_writes>>

(***************************************************************************)
(* Entering the locked section: "async with self.cmd_request_lock" and     *)
(* "await self.cmd_request_lock.acquire()".  Each handler has a Body(t, l,  *)
(* tr): the code that runs once the lock is taken, l the lock as taken.    *)
(***************************************************************************)
\* the coroutines in flight
InFlight == {t \in Tasks : task[t].kind \notin {"idle", "init"}}
MayStart == Cardinality(InFlight) < MaxTasks

\* a request is served by the lowest free slot of the table
FreeSlot(t) ==
    /\ MayStart
    /\ t \in RequestTasks
    /\ task[t].kind = "idle"
    /\ \A u \in RequestTasks : u < t => task[u].kind # "idle"

\* of two requests in flight together one at least is an update request:
\* a request of another kind arrives while no request, or an update request,
\* is in flight
BesideUpdates(t) ==
    /\ FreeSlot(t)
    /\ \A u \in RequestTasks : task[u].kind \in {"idle", "update"}

\* acquire() suspends: the coroutine joins the waiters of the lock
LockWait(t, tr) ==
    /\ cmd_request_lock' = LockEnqueue(cmd_request_lock, t)
    /\ task' = [task EXCEPT ![t] =
                  [tr EXCEPT !.pc = "wait",
                             !.behind_update =
                                 /\ tr.kind = "update"
                                 /\ cmd_helper.cur_update_app \in Names
                                 /\ cmd_helper.cur_update_app # tr.app]]
    /\ UNCHANGED <<updaters, order, initial_refresh_complete,
                   klippy_identified_evt, cmd_helper, available_packages,
                   is_printing, validation_enabled, now, next_tick, started, partVars,
                   unlocked_writes>>

\* acquire() can return to a coroutine of this kind that waited
Resumes(t, kind) ==
    /\ NoneDone
    /\ task[t].kind = kind
    /\ task[t].pc = "wait"
    /\ CanResume(cmd_request_lock, t)

\* a request ends before its first suspension point
Answer(t, tr, result) ==
    /\ task' = [task EXCEPT ![t] = Finish(tr, result)]
    /\ UNCHANGED <<updaters, order, cmd_request_lock,
                   initial_refresh_complete, klippy_identified_evt,
                   cmd_helper, available_packages, is_printing,
                   validation_enabled, now, next_tick, started, partVars,
                   unlocked_writes>>

(***************************************************************************)
(* _handle_update_request                                                  *)
(***************************************************************************)
\* under the lock: set_update_info, then updater.update() starts
UpdateBody(t, l, tr) ==
    /\ cmd_request_lock' = l
    /\ cmd_helper' = set_update_info(tr.app, t)
    /\ task' = [task EXCEPT ![t] =
                  [Call(tr, "update", tr.ref) EXCEPT !.pc = "update:update"]]
    /\ unlocked_writes' = Wrote(l, t, "update", {"session", "restarts"})
    /\ UNCHANGED <<updaters, order, initial_refresh_complete,
                   klippy_identified_evt, available_packages, is_printing,
                   validation_enabled, now, next_tick, started, partVars>>

UpdateRequest(t, app) ==
    /\ NoneDone
    /\ started
    /\ FreeSlot(t)
    /\ LET tr == NewTask("update", app)
           tr1 == [tr EXCEPT !.ref = updaters_get(app)]
       IN IF kconn_is_printing
          THEN Answer(t, tr, "Update Refused: Klippy is printing")
          ELSE IF is_app_updating(cmd_helper, app)
          THEN Answer(t, tr, "is currently being updated")
          ELSE IF updaters_get(app) = NoRef
          THEN Answer(t, tr, "not available")
          ELSE IF CanAcquire(cmd_request_lock)
          THEN UpdateBody(t, LockTake(cmd_request_lock, t), tr1)
          ELSE LockWait(t, tr1)

UpdateResume(t) ==
    /\ Resumes(t, "update")
    /\ UpdateBody(t, LockResume(cmd_request_lock, t), task[t])

\* updater.update() returns or raises; the error is notified; the session is
\* cleared and the lock released
UpdateDone(t) ==
    /\ NoneDone
    /\ task[t].pc = "update:update"
    /\ \E out \in UpdateOutcomes(cmd_helper, available_packages, task[t].ref) :
         LET tr == task[t]
             h1 == UpdateHelper(cmd_helper, out)
             tr1 == UpdateNotes(tr, h1, tr.ref, out)
             tr2 == IF out.ret = "raise"
                    THEN Emit(tr1, notify_update_response(
                                       h1, <<"Error updating", tr.app>>, TRUE))
                    ELSE tr1
         IN /\ available_packages' =
                   UpdateCatalog(available_packages, tr.ref, out)
            /\ updaters' = UpdateUpdaters(updaters, tr.ref, out)
            /\ cmd_helper' = clear_update_info(h1)
            /\ cmd_request_lock' = LockRelease(cmd_request_lock)
            /\ task' = [task EXCEPT ![t] =
                          Finish(tr2, IF out.ret = "raise"
                                      THEN "raised" ELSE "ok")]
            /\ unlocked_writes' =
                   Wrote(cmd_request_lock, t, "update",
                         {"session", "restarts"}
                         \cup IF tr.ref.cls = "PackageDeploy"
                                 /\ out.ret = "true"
                              THEN {"catalog"} ELSE {})
    /\ UNCHANGED <<order, initial_refresh_complete, klippy_identified_evt,
                   is_printing, validation_enabled, now, next_tick, started, partVars>>

(***************************************************************************)
(* _handle_full_update_request                                             *)
(***************************************************************************)
\* "Update Moonraker" without app_name = 'moonraker'
FullToMoonrakerUnnamed(tr, evt) ==
    [tr |-> [Call(tr, "update", Ref("moonraker"))
               EXCEPT !.pc = "full:moonraker", !.ref = Ref("moonraker")],
     evt |-> evt]

\* "Update Moonraker": moon_updater.update() starts
FullToMoonraker(tr, evt) ==
    [tr |-> [Call(tr, "update", Ref("moonraker"))
               EXCEPT !.pc = "full:moonraker", !.app = "moonraker",
                      !.ref = Ref("moonraker")],
     evt |-> evt]

\* "Update Klipper": an app-type klipper deployment gets a fresh event and
\* its update() starts; any other is skipped
FullToKlipper(tr, evt) ==
    LET kupdater == updaters_get("klipper")
    IN IF IsAppDeploy(kupdater.cls)
       THEN [tr |-> [Call(tr, "update", kupdater)
                       EXCEPT !.pc = "full:klipper", !.app = "klipper",
                              !.ref = kupdater],
             evt |-> "clear"]
       ELSE FullToMoonraker([tr EXCEPT !.app = "klipper"], evt)

\* "Update clients" taking the keys from the end of the map
FullToClientsReversed(tr, evt, i) ==
    LET rest == {j \in i .. Len(order) :
                    order[j] \notin {"klipper", "moonraker", "system"}}
    IN IF rest = {}
       THEN FullToKlipper(tr, evt)
       ELSE LET j == CHOOSE j \in rest : \A k \in rest : j >= k
            IN [tr |-> [Call(tr, "update", Ref(order[j]))
                          EXCEPT !.pc = "full:client", !.app = order[j],
                                 !.ref = Ref(order[j]), !.idx = j],
                evt |-> evt]

\* "Update clients": the next key from position i on that is not klipper,
\* moonraker or system
FullToClients(tr, evt, i) ==
    LET rest == {j \in i .. Len(order) :
                    order[j] \notin {"klipper", "moonraker", "system"}}
    IN IF rest = {}
       THEN FullToKlipper(tr, evt)
       ELSE LET j == CHOOSE j \in rest : \A k \in rest : j <= k
            IN [tr |-> [Call(tr, "update", Ref(order[j]))
                          EXCEPT !.pc = "full:client", !.app = order[j],
                                 !.ref = Ref(order[j]), !.idx = j],
                evt |-> evt]

\* "Perform system updates"
FullToSystem(tr, evt) ==
    IF "system" \in DOMAIN updaters
    THEN [tr |-> [Call(tr, "update", Ref("system"))
                    EXCEPT !.pc = "full:system", !.app = "system",
                           !.ref = Ref("system")],
          evt |-> evt]
    ELSE FullToClients(tr, evt, 1)

\* the sequence goes on: r is the task and the event after the next call
\* has started
FullGoesOn(t, r, h, cat, ups, what) ==
    /\ task' = [task EXCEPT ![t] = r.tr]
    /\ klippy_identified_evt' = r.evt
    /\ cmd_helper' = h
    /\ available_packages' = cat
    /\ updaters' = ups
    /\ cmd_request_lock' = cmd_request_lock
    /\ unlocked_writes' = Wrote(cmd_request_lock, t, "full", what)

\* a full update whose except clause raises again
FullEndsRaising(t, tr, h, cat, ups, resp) ==
    LET h1 == set_full_complete(h, TRUE)
        tr1 == Emit(tr, notify_update_response(h1, resp, TRUE))
    IN /\ task' = [task EXCEPT ![t] =
                     Finish(tr1, IF tr.failed # None THEN "raised" ELSE "ok")]
       /\ klippy_identified_evt' = klippy_identified_evt
       /\ cmd_helper' = clear_update_info(h1)
       /\ available_packages' = cat
       /\ updaters' = ups
       /\ cmd_request_lock' = LockRelease(cmd_request_lock)
       /\ unlocked_writes' = Wrote(cmd_request_lock, t, "full",
                                   {"session", "restarts"})

\* the sequence ends: the last notification is sent with full_complete set,
\* the session is cleared and the lock released
FullEnds(t, tr, h, cat, ups, resp) ==
    LET h1 == set_full_complete(h, TRUE)
        tr1 == Emit(tr, notify_update_response(h1, resp, TRUE))
    IN /\ task' = [task EXCEPT ![t] = Finish(tr1, "ok")]
       /\ klippy_identified_evt' = klippy_identified_evt
       /\ cmd_helper' = clear_update_info(h1)
       /\ available_packages' = cat
       /\ updaters' = ups
       /\ cmd_request_lock' = LockRelease(cmd_request_lock)
       /\ unlocked_writes' = Wrote(cmd_request_lock, t, "full",
                                   {"session", "restarts"})

FullBody(t, l, tr) ==
    LET h == set_update_info("full", t)
        tr1 == Emit(tr, notify_update_response(
                            h, <<"Preparing full software update...", None>>,
                            FALSE))
        r == FullToSystem(tr1, klippy_identified_evt)
    IN /\ cmd_request_lock' = l
       /\ cmd_helper' = h
       /\ task' = [task EXCEPT ![t] = r.tr]
       /\ klippy_identified_evt' = r.evt
       /\ unlocked_writes' = Wrote(l, t, "full", {"session", "restarts"})
       /\ UNCHANGED <<updaters, order, initial_refresh_complete,
                      available_packages, is_printing, validation_enabled,
                      now, next_tick, started, partVars>>

FullUpdateRequest(t) ==
    /\ NoneDone
    /\ started
    /\ BesideUpdates(t)
    /\ IF CanAcquire(cmd_request_lock)
       THEN FullBody(t, LockTake(cmd_request_lock, t), NewTask("full", None))
       ELSE LockWait(t, NewTask("full", None))

FullResume(t) ==
    /\ Resumes(t, "full")
    /\ FullBody(t, LockResume(cmd_request_lock, t), task[t])

\* the update() of the system packages or of a client returns or raises
FullPhaseDone(t) ==
    /\ NoneDone
    /\ task[t].pc \in {"full:system", "full:client"}
    /\ \E out \in UpdateOutcomes(cmd_helper, available_packages, task[t].ref) :
         LET tr == task[t]
             h1 == UpdateHelper(cmd_helper, out)
             tr1 == UpdateNotes(tr, h1, tr.ref, out)
             cat == UpdateCatalog(available_packages, tr.ref, out)
             ups == UpdateUpdaters(updaters, tr.ref, out)
             what == (IF out.restarts # {} THEN {"restarts"} ELSE {})
                     \cup (IF cat # available_packages
                           THEN {"catalog"} ELSE {})
         IN IF out.ret = "raise"
            THEN FullEnds(t, [tr1 EXCEPT !.failed = tr.ref.name], h1, cat,
                          ups, <<"Error updating", tr.app>>)
            ELSE FullGoesOn(t,
                            IF tr.pc = "full:system"
                            THEN FullToClients(tr1, klippy_identified_evt, 1)
                            ELSE FullToClients(tr1, klippy_identified_evt,
                                               tr.idx + 1),
                            h1, cat, ups, what)
    /\ UNCHANGED <<order, initial_refresh_complete, is_printing,
                   validation_enabled, now, next_tick, started, partVars>>

\* a wait that creates its event when it starts
FullToWaitFresh(tr, h) ==
    [tr |-> [Emit(tr, notify_update_response(
                          h, <<"Waiting for Klippy to reconnect", None>>,
                          FALSE))
               EXCEPT !.pc = "full:kwait", !.flag = TRUE],
     evt |-> "clear"]

\* the "Waiting for Klippy to reconnect" notification, then the wait
FullToWait(tr, h) ==
    [tr |-> [Emit(tr, notify_update_response(
                          h, <<"Waiting for Klippy to reconnect", None>>,
                          FALSE))
               EXCEPT !.pc = "full:kwait", !.flag = TRUE],
     evt |-> klippy_identified_evt]

\* kupdater.update() returns or raises
FullKlipperDone(t) ==
    /\ NoneDone
    /\ task[t].pc = "full:klipper"
    /\ \E out \in UpdateOutcomes(cmd_helper, available_packages, task[t].ref) :
         LET tr == task[t]
             h1 == UpdateHelper(cmd_helper, out)
             tr1 == [UpdateNotes(tr, h1, tr.ref, out)
                       EXCEPT !.flag = (out.ret = "true"),
                              !.outcome = out.ret]
             ups == UpdateUpdaters(updaters, tr.ref, out)
         IN IF out.ret = "raise"
            THEN FullEnds(t, [tr1 EXCEPT !.failed = tr.ref.name], h1,
                          available_packages, ups,
                          <<"Error updating", tr.app>>)
            ELSE FullGoesOn(t,
                    IF needs_service_restart(h1, tr.app)
                    THEN [tr |-> [Call(tr1, "restart_service", tr.ref)
                                    EXCEPT !.pc = "full:krestart"],
                          evt |-> klippy_identified_evt]
                    ELSE IF tr1.flag
                    THEN FullToWait(tr1, h1)
                    ELSE FullToMoonraker(tr1, klippy_identified_evt),
                    h1, available_packages, ups, {})
    /\ UNCHANGED <<order, initial_refresh_complete, is_printing,
                   validation_enabled, now, next_tick, started, partVars>>

\* remove_pending_restart
remove_pending_restart(h, svc_name) ==
    [h EXCEPT !.pending_service_restarts = @ \ {svc_name}]

\* kupdater.restart_service() returns or raises
FullKlipperRestarted(t) ==
    /\ NoneDone
    /\ task[t].pc = "full:krestart"
    /\ \E out \in RestartOutcomes :
         LET tr == task[t]
             h1 == IF out = "ok"
                   THEN remove_pending_restart(cmd_helper, "klipper")
                   ELSE cmd_helper
         IN IF out = "raise"
            THEN FullEnds(t, [tr EXCEPT !.failed = tr.ref.name], h1,
                          available_packages, updaters,
                          <<"Error updating", tr.app>>)
            ELSE FullGoesOn(t, FullToWait(tr, h1), h1, available_packages,
                            updaters, {"restarts"})
    /\ UNCHANGED <<order, initial_refresh_complete, is_printing,
                   validation_enabled, now, next_tick, started, partVars>>

\* a wait whose timeout is passed over in silence
FullAfterWaitSilent(tr, h, evt) ==
    FullToMoonraker(
        IF evt = "set"
        THEN Emit(tr, notify_update_response(
                          h, <<"Klippy Reconnected", None>>, FALSE))
        ELSE [tr EXCEPT !.timed_out = TRUE],
        None)

\* after the wait: the notification of its outcome, the event is dropped and
\* the update of moonraker starts
FullAfterWait(tr, h, evt) ==
    FullToMoonraker(
        IF evt = "set"
        THEN Emit(tr, notify_update_response(
                          h, <<"Klippy Reconnected", None>>, FALSE))
        ELSE Emit([tr EXCEPT !.timed_out = TRUE],
                  notify_update_response(
                      h, <<"Klippy reconnect timed out...", None>>, FALSE)),
        None)

\* asyncio.wait_for(self.klippy_identified_evt.wait(), 120.) returns because
\* the event is set, or times out while it is not.  The 120 s are not
\* measured: the timeout may come at any moment at which the event is clear.
FullWaitDone(t) ==
    /\ NoneDone
    /\ task[t].pc = "full:kwait"
    /\ FullGoesOn(t, FullAfterWait(task[t], cmd_helper,
                                   klippy_identified_evt),
                  cmd_helper, available_packages, updaters, {})
    /\ UNCHANGED <<order, initial_refresh_complete, is_printing,
                   validation_enabled, now, next_tick, started, partVars>>

\* moon_updater.update() returns or raises
FullMoonrakerDone(t) ==
    /\ NoneDone
    /\ task[t].pc = "full:moonraker"
    /\ \E out \in UpdateOutcomes(cmd_helper, available_packages, task[t].ref) :
         LET tr == task[t]
             h1 == UpdateHelper(cmd_helper, out)
             tr1 == UpdateNotes(tr, h1, tr.ref, out)
             ups == UpdateUpdaters(updaters, tr.ref, out)
         IN IF out.ret = "raise"
            THEN FullEnds(t, [tr1 EXCEPT !.failed = tr.ref.name], h1,
                          available_packages, ups,
                          <<"Error updating", tr.app>>)
            ELSE IF needs_service_restart(h1, tr.app)
            THEN FullGoesOn(t,
                    [tr |-> [Call(tr1, "restart_service", tr.ref)
                               EXCEPT !.pc = "full:mrestart"],
                     evt |-> klippy_identified_evt],
                    h1, available_packages, ups, {})
            ELSE FullEnds(t, tr1, h1, available_packages, ups,
                          <<"Full Update Complete", None>>)
    /\ UNCHANGED <<order, initial_refresh_complete, is_printing,
                   validation_enabled, now, next_tick, started, partVars>>

\* moon_updater.restart_service() returns or raises
FullMoonrakerRestarted(t) ==
    /\ NoneDone
    /\ task[t].pc = "full:mrestart"
    /\ \E out \in RestartOutcomes :
         LET tr == task[t]
             h1 == IF out = "ok"
                   THEN remove_pending_restart(cmd_helper, "moonraker")
                   ELSE cmd_helper
         IN FullEnds(t, [tr EXCEPT !.failed = IF out = "raise"
                                              THEN tr.ref.name ELSE None],
                     h1, available_packages, updaters,
                     IF out = "raise"
                     THEN <<"Error updating", tr.app>>
                     ELSE <<"Full Update Complete", None>>)
    /\ UNCHANGED <<order, initial_refresh_complete, is_printing,
                   validation_enabled, now, next_tick, started, partVars>>

(***************************************************************************)
(* _handle_status_request                                                  *)
(***************************************************************************)
\* list(self.updaters.items()) is taken and the refresh() of its item i
\* starts
StatusToItem(tr, i, kref) ==
    [Call(tr, "refresh", ItemAt(i, kref))
       EXCEPT !.pc = "status:refresh", !.idx = i, !.kref = kref,
              !.ref = ItemAt(i, kref)]

\* a status request whose anti-spam bypass keeps the lock
StatusBodyKeepsLock(t, l, tr) ==
    /\ IF now < max_last_refresh_time + SPAM_WINDOW
       THEN /\ cmd_request_lock' = l
            /\ task' = [task EXCEPT ![t] =
                          Finish([tr EXCEPT !.flag = FALSE], "snapshot")]
       ELSE /\ cmd_request_lock' = l
            /\ task' = [task EXCEPT ![t] = StatusToItem(tr, 1, Ref("klipper"))]
    /\ UNCHANGED <<updaters, order, initial_refresh_complete,
                   klippy_identified_evt, cmd_helper, available_packages,
                   is_printing, validation_enabled, now, next_tick, started, partVars,
                   unlocked_writes>>

\* with the lock: the anti-spam check, then the loop over the updaters
StatusBody(t, l, tr) ==
    /\ IF now < max_last_refresh_time + SPAM_WINDOW
       THEN /\ cmd_request_lock' = LockRelease(l)
            /\ task' = [task EXCEPT ![t] =
                          Finish([tr EXCEPT !.flag = FALSE], "snapshot")]
       ELSE /\ cmd_request_lock' = l
            /\ task' = [task EXCEPT ![t] = StatusToItem(tr, 1, Ref("klipper"))]
    /\ UNCHANGED <<updaters, order, initial_refresh_complete,
                   klippy_identified_evt, cmd_helper, available_packages,
                   is_printing, validation_enabled, now, next_tick, started, partVars,
                   unlocked_writes>>

\* the conditions that override a request to refresh, and that make
\* _handle_refresh_request answer 'Server is busy'
ServerBusy ==
    \/ validation_enabled
    \/ is_update_busy(cmd_helper)
    \/ kconn_is_printing
    \/ ~initial_refresh_complete

\* a status request that refreshes whether asked to or not
check_refresh_unasked(refresh) == ~ServerBusy

\* a status request that refreshes on a busy server
check_refresh_as_asked(refresh) == refresh

\* check_refresh after the override
check_refresh_value(refresh) == refresh /\ ~ServerBusy

StatusRequest(t, refresh) ==
    /\ NoneDone
    /\ started
    /\ BesideUpdates(t)
    /\ LET check_refresh == check_refresh_value(refresh)
           tr == [NewTask("status", None) EXCEPT !.flag = check_refresh,
                                                !.asked = refresh]
       IN IF ~check_refresh
          THEN Answer(t, tr, "snapshot")
          ELSE IF CanAcquire(cmd_request_lock)
          THEN StatusBody(t, LockTake(cmd_request_lock, t), tr)
          ELSE LockWait(t, tr)

StatusResume(t) ==
    /\ Resumes(t, "status")
    /\ StatusBody(t, LockResume(cmd_request_lock, t), task[t])

\* updater.refresh() returns or raises
StatusRefreshDone(t) ==
    /\ NoneDone
    /\ task[t].pc = "status:refresh"
    /\ \E out \in RefreshOutcomes(task[t].ref) :
         LET tr == [task[t] EXCEPT !.outcome = out.ret]
         IN /\ available_packages' =
                   RefreshCatalog(available_packages, tr.ref, out)
            /\ updaters' = RefreshUpdaters(updaters, tr.ref, out)
            /\ unlocked_writes' =
                   IF tr.ref.cls = "PackageDeploy" /\ out.ret = "ok"
                   THEN Wrote(cmd_request_lock, t, "status", {"catalog"})
                   ELSE unlocked_writes
            /\ IF out.ret = "raise"
               THEN /\ cmd_request_lock' = LockRelease(cmd_request_lock)
                    /\ task' = [task EXCEPT ![t] = Finish(tr, "raised")]
               ELSE IF tr.idx < Len(order)
               THEN /\ cmd_request_lock' = cmd_request_lock
                    /\ task' = [task EXCEPT ![t] =
                                  StatusToItem(tr, tr.idx + 1, tr.kref)]
               ELSE /\ cmd_request_lock' = LockRelease(cmd_request_lock)
                    /\ task' = [task EXCEPT ![t] = Finish(tr, "snapshot")]
    /\ UNCHANGED <<order, initial_refresh_complete, klippy_identified_evt,
                   cmd_helper, is_printing, validation_enabled, now,
                   next_tick, started, partVars>>

(***************************************************************************)
(* _handle_refresh_request                                                 *)
(***************************************************************************)
\* the items from position i on that the request names
\* a refresh request that refreshes every deployment whatever it names
RefreshRestAll(name, i) == i .. Len(order)

RefreshRest(name, i) ==
    {j \in i .. Len(order) : name = None \/ order[j] = name}

RefreshToItem(tr, j, kref) ==
    [Call(tr, "refresh", ItemAt(j, kref))
       EXCEPT !.pc = "refresh:refresh", !.idx = j, !.kref = kref,
              !.ref = ItemAt(j, kref)]

RefreshBody(t, l, tr) ==
    LET rest == RefreshRest(tr.app, 1)
        j == CHOOSE j \in rest : \A k \in rest : j <= k
    IN /\ cmd_request_lock' = l
       /\ task' = [task EXCEPT ![t] = RefreshToItem(tr, j, Ref("klipper"))]
       /\ UNCHANGED <<updaters, order, initial_refresh_complete,
                      klippy_identified_evt, cmd_helper, available_packages,
                      is_printing, validation_enabled, now, next_tick,
                      started, partVars, unlocked_writes>>

RefreshRequest(t, name) ==
    /\ NoneDone
    /\ started
    /\ BesideUpdates(t)
    /\ LET tr == NewTask("refresh", name)
       IN IF name # None /\ name \notin DOMAIN updaters
          THEN Answer(t, tr, "No updater registered")
          ELSE IF ServerBusy
          THEN Answer(t, tr, "Server is busy, cannot perform refresh")
          ELSE IF CanAcquire(cmd_request_lock)
          THEN RefreshBody(t, LockTake(cmd_request_lock, t), tr)
          ELSE LockWait(t, tr)

RefreshResume(t) ==
    /\ Resumes(t, "refresh")
    /\ RefreshBody(t, LockResume(cmd_request_lock, t), task[t])

RefreshDone(t) ==
    /\ NoneDone
    /\ task[t].pc = "refresh:refresh"
    /\ \E out \in RefreshOutcomes(task[t].ref) :
         LET tr == [task[t] EXCEPT !.outcome = out.ret]
             rest == RefreshRest(tr.app, tr.idx + 1)
         IN /\ available_packages' =
                   RefreshCatalog(available_packages, tr.ref, out)
            /\ updaters' = RefreshUpdaters(updaters, tr.ref, out)
            /\ unlocked_writes' =
                   IF tr.ref.cls = "PackageDeploy" /\ out.ret = "ok"
                   THEN Wrote(cmd_request_lock, t, "refresh", {"catalog"})
                   ELSE unlocked_writes
            /\ IF out.ret = "raise"
               THEN /\ cmd_request_lock' = LockRelease(cmd_request_lock)
                    /\ task' = [task EXCEPT ![t] = Finish(tr, "raised")]
               ELSE IF rest # {}
               THEN /\ cmd_request_lock' = cmd_request_lock
                    /\ task' = [task EXCEPT ![t] =
                                  RefreshToItem(
                                      tr,
                                      CHOOSE j \in rest : \A k \in rest : j <= k,
                                      tr.kref)]
               ELSE /\ cmd_request_lock' = LockRelease(cmd_request_lock)
                    /\ task' = [task EXCEPT ![t] = Finish(tr, "snapshot")]
    /\ UNCHANGED <<order, initial_refresh_complete, klippy_identified_evt,
                   cmd_helper, is_printing, validation_enabled, now,
                   next_tick, started, partVars>>

(***************************************************************************)
(* _handle_repo_recovery and _handle_rollback                              *)
(***************************************************************************)
\* f"recover_{app}" and f"rollback_{app}"
SessionName(kind, app) == kind \o "_" \o app

\* under the lock: set_update_info, then the call starts
RepairBody(t, l, tr) ==
    /\ cmd_request_lock' = l
    /\ cmd_helper' = set_update_info(SessionName(tr.kind, tr.app), t)
    /\ task' = [task EXCEPT ![t] =
                  [Call(tr, tr.kind, tr.ref) EXCEPT !.pc = "repair"]]
    /\ unlocked_writes' = Wrote(l, t, tr.kind, {"session", "restarts"})
    /\ UNCHANGED <<updaters, order, initial_refresh_complete,
                   klippy_identified_evt, available_packages, is_printing,
                   validation_enabled, now, next_tick, started, partVars>>

RecoveryRequest(t, app) ==
    /\ NoneDone
    /\ started
    /\ BesideUpdates(t)
    /\ LET tr == NewTask("recover", app)
           tr1 == [tr EXCEPT !.ref = updaters_get(app)]
       IN IF kconn_is_printing
          THEN Answer(t, tr, "Recovery Attempt Refused: Klippy is printing")
          ELSE IF updaters_get(app) = NoRef
          THEN Answer(t, tr, "not available")
          ELSE IF updaters_get(app).cls # "GitDeploy"
          THEN Answer(t, tr, "is not a Git Repo Type")
          ELSE IF CanAcquire(cmd_request_lock)
          THEN RepairBody(t, LockTake(cmd_request_lock, t), tr1)
          ELSE LockWait(t, tr1)

RollbackRequest(t, app) ==
    /\ NoneDone
    /\ started
    /\ BesideUpdates(t)
    /\ LET tr == NewTask("rollback", app)
           tr1 == [tr EXCEPT !.ref = updaters_get(app)]
       IN IF kconn_is_printing
          THEN Answer(t, tr, "Rollback Attempt Refused: Klippy is printing")
          ELSE IF updaters_get(app) = NoRef
          THEN Answer(t, tr, "not available")
          ELSE IF CanAcquire(cmd_request_lock)
          THEN RepairBody(t, LockTake(cmd_request_lock, t), tr1)
          ELSE LockWait(t, tr1)

RecoveryResume(t) ==
    /\ Resumes(t, "recover")
    /\ RepairBody(t, LockResume(cmd_request_lock, t), task[t])

RollbackResume(t) ==
    /\ Resumes(t, "rollback")
    /\ RepairBody(t, LockResume(cmd_request_lock, t), task[t])

\* the two notifications of a failed recovery or rollback; the session is
\* cleared and the lock released
RepairEnds(t, tr, raised, ups) ==
    LET tr1 == IF raised
               THEN Emit(Emit(tr, notify_update_response(
                                      cmd_helper, <<"Error", tr.app>>, FALSE)),
                         notify_update_response(
                             cmd_helper, <<"str(e)", tr.app>>, TRUE))
               ELSE tr
    IN /\ task' = [task EXCEPT ![t] =
                     Finish(tr1, IF raised THEN "raised" ELSE "ok")]
       /\ updaters' = ups
       /\ cmd_helper' = clear_update_info(cmd_helper)
       /\ cmd_request_lock' = LockRelease(cmd_request_lock)
       /\ unlocked_writes' = Wrote(cmd_request_lock, t, tr.kind,
                                   {"session", "restarts"})
       /\ UNCHANGED <<order, initial_refresh_complete, klippy_identified_evt,
                      available_packages, is_printing, validation_enabled,
                      now, next_tick, started, partVars>>

\* updater.recover(hard, update_deps) returns or raises
RecoveryDone(t) ==
    /\ NoneDone
    /\ task[t].kind = "recover"
    /\ task[t].pc = "repair"
    /\ \E out \in RecoverOutcomes :
         RepairEnds(t, task[t], out = "raise", updaters)

\* updater.rollback() returns or raises
RollbackDone(t) ==
    /\ NoneDone
    /\ task[t].kind = "rollback"
    /\ task[t].pc = "repair"
    /\ \E out \in RollbackOutcomes(task[t].ref) :
         LET tr == IF out = "true"
                   THEN Emit(task[t],
                             notify_update_response(
                                 cmd_helper,
                                 <<"Rollback Complete", task[t].app>>, TRUE))
                   ELSE task[t]
         IN RepairEnds(t, tr, out = "raise",
                       RollbackUpdaters(updaters, task[t].ref, out))

(***************************************************************************)
(* _handle_auto_refresh                                                    *)
(***************************************************************************)
\* time.localtime(time.time()).tm_hour as the tick may find it
Hours == {3, 4}

\* last_refresh_time of the object a reference points to; klrt is the value
\* the klipper object had when the copy of the map was taken
RefLrt(ref, klrt) ==
    IF ref.name = "klipper" THEN klrt ELSE updaters[ref.name].lrt

\* the items from position i on whose needs_refresh() answers true
StaleRest(i, kref, klrt) ==
    {j \in i .. Len(order) :
        needs_refresh([lrt |-> RefLrt(ItemAt(j, kref), klrt)])}

\* a tick that leaves initial_refresh_complete as it found it
AutoReturnsUnmarked(tr, irc, l, how) ==
    /\ task' = [task EXCEPT ![MainTask] =
                  Finish([tr EXCEPT !.ret = tr.eventtime
                                            + UPDATE_REFRESH_INTERVAL],
                         how)]
    /\ next_tick' = tr.eventtime + UPDATE_REFRESH_INTERVAL
    /\ initial_refresh_complete' = initial_refresh_complete
    /\ cmd_request_lock' = l

\* the tick returns eventtime + UPDATE_REFRESH_INTERVAL, the time of the
\* next call of the timer; how tells which return statement was taken
AutoReturns(tr, irc, l, how) ==
    /\ task' = [task EXCEPT ![MainTask] =
                  Finish([tr EXCEPT !.ret = tr.eventtime
                                            + UPDATE_REFRESH_INTERVAL],
                         how)]
    /\ next_tick' = tr.eventtime + UPDATE_REFRESH_INTERVAL
    /\ initial_refresh_complete' = irc
    /\ cmd_request_lock' = l

\* the loop goes to the next item that needs a refresh, or the pass ends:
\* initial_refresh_complete is set and the lock released
AutoGoesOn(tr, i, l) ==
    LET rest == StaleRest(i, tr.kref, tr.klrt)
    IN IF rest # {}
       THEN LET j == CHOOSE j \in rest : \A k \in rest : j <= k
            IN /\ task' = [task EXCEPT ![MainTask] =
                             [Call(tr, "refresh", ItemAt(j, tr.kref))
                                EXCEPT !.pc = "auto:refresh", !.idx = j,
                                       !.ref = ItemAt(j, tr.kref)]]
               /\ cmd_request_lock' = l
               /\ UNCHANGED <<next_tick, initial_refresh_complete>>
       ELSE AutoReturns(tr, TRUE, LockRelease(l), "refreshed")

AutoBody(t, l, tr) ==
    /\ AutoGoesOn([tr EXCEPT !.kref = Ref("klipper"),
                             !.klrt = updaters["klipper"].lrt], 1, l)
    /\ UNCHANGED <<updaters, order, klippy_identified_evt, cmd_helper,
                   available_packages, is_printing, validation_enabled, now,
                   started, partVars, unlocked_writes>>

\* a window that stays open one hour longer
past_update_hour_late(cur_hour) == cur_hour > MAX_UPDATE_HOUR

\* "if cur_hour >= MAX_UPDATE_HOUR"
past_update_hour(cur_hour) == cur_hour >= MAX_UPDATE_HOUR

\* the timer calls _handle_auto_refresh(eventtime)
AutoRefreshTick(cur_hour) ==
    /\ NoneDone
    /\ started
    /\ task[MainTask].kind = "idle"
    /\ MayStart
    /\ next_tick <= MaxTicks * UPDATE_REFRESH_INTERVAL
    /\ LET tr == [NewTask("auto", None) EXCEPT !.eventtime = next_tick,
                                              !.cur_hour = cur_hour]
           Skip(irc, how) ==
               /\ AutoReturns(tr, irc, cmd_request_lock, how)
               /\ UNCHANGED <<updaters, order, klippy_identified_evt,
                              cmd_helper, available_packages, is_printing,
                              validation_enabled, now, started, partVars,
                              unlocked_writes>>
       IN IF initial_refresh_complete /\ past_update_hour(cur_hour)
          THEN Skip(initial_refresh_complete, "outside update hours")
          ELSE IF initial_refresh_complete /\ kconn_is_printing
          THEN Skip(initial_refresh_complete, "printing")
          ELSE IF validation_enabled
          THEN Skip(TRUE, "validation pending")
          ELSE IF CanAcquire(cmd_request_lock)
          THEN AutoBody(MainTask, LockTake(cmd_request_lock, MainTask), tr)
          ELSE LockWait(MainTask, tr)

AutoResume ==
    /\ Resumes(MainTask, "auto")
    /\ AutoBody(MainTask, LockResume(cmd_request_lock, MainTask),
                task[MainTask])

\* updater.refresh() returns or raises
AutoRefreshDone ==
    /\ NoneDone
    /\ task[MainTask].pc = "auto:refresh"
    /\ \E out \in RefreshOutcomes(task[MainTask].ref) :
         LET tr == [task[MainTask] EXCEPT !.outcome = out.ret]
         IN /\ available_packages' =
                   RefreshCatalog(available_packages, tr.ref, out)
            /\ updaters' = RefreshUpdaters(updaters, tr.ref, out)
            /\ unlocked_writes' =
                   IF tr.ref.cls = "PackageDeploy" /\ out.ret = "ok"
                   THEN Wrote(cmd_request_lock, MainTask, "auto", {"catalog"})
                   ELSE unlocked_writes
            /\ IF out.ret = "raise"
               THEN AutoReturns(tr, TRUE, LockRelease(cmd_request_lock),
                                "refresh raised")
               ELSE AutoGoesOn([tr EXCEPT !.flag = TRUE], tr.idx + 1,
                               cmd_request_lock)
    /\ UNCHANGED <<order, klippy_identified_evt, cmd_helper, is_printing,
                   validation_enabled, now, started, partVars>>

(***************************************************************************)
(* _set_klipper_repo and _update_klipper_repo                              *)
(***************************************************************************)
\* what klippy may report: the install location and get_app_type() of it
KlippyInfos == {[klipper_path |-> "/opt/klipper", app_type |-> "git_repo"],
                [klipper_path |-> "/home/pi/klipper", app_type |-> "none"]}

\* the 'server:klippy_identified' event.  kinfo is empty, or reports a path
\* and the type of install found there.
KlippyIdentified(valid, kinfo) ==
    /\ NoneDone
    /\ started
    /\ klippy_identified_evt' =
           IF klippy_identified_evt # None THEN "set" ELSE None
    /\ LET kupdater == updaters["klipper"]
       IN IF ~valid
             \/ (IsAppDeploy(kupdater.cls) /\ check_same_paths(kupdater, kinfo.klipper_path))
          THEN UNCHANGED <<updaters, task>>
          ELSE /\ kupdater.gen < MaxIdent
               /\ MayStart
               /\ updaters' = [updaters EXCEPT !["klipper"] =
                                 [cls |-> get_deploy_class(kinfo.app_type),
                                  gen |-> kupdater.gen + 1,
                                  path |-> kinfo.klipper_path, lrt |-> 0,
                                  remote |-> UnknownVersion,
                                  stored |-> kupdater.stored]]
               /\ task' = [task EXCEPT ![KRepoTask(kupdater.gen + 1)] =
                             [NewTask("krepo", "klipper")
                                EXCEPT !.pc = "created",
                                       !.flag = ~IsAppDeploy(kupdater.cls)]]
    /\ UNCHANGED <<order, cmd_request_lock, initial_refresh_complete,
                   cmd_helper, available_packages, is_printing,
                   validation_enabled, now, next_tick, started, partVars,
                   unlocked_writes>>

\* under the lock: umdb.pop('klipper', None) starts
KRepoBody(t, l, tr) ==
    /\ cmd_request_lock' = l
    /\ task' = [task EXCEPT ![t] = [tr EXCEPT !.pc = "krepo:pop"]]
    /\ UNCHANGED <<updaters, order, initial_refresh_complete,
                   klippy_identified_evt, cmd_helper, available_packages,
                   is_printing, validation_enabled, now, next_tick, started, partVars,
                   unlocked_writes>>

\* the task created by _set_klipper_repo runs for the first time
KRepoStart(t) ==
    /\ NoneDone
    /\ task[t].kind = "krepo"
    /\ task[t].pc = "created"
    /\ IF CanAcquire(cmd_request_lock)
       THEN KRepoBody(t, LockTake(cmd_request_lock, t), task[t])
       ELSE LockWait(t, task[t])

KRepoResume(t) ==
    /\ Resumes(t, "krepo")
    /\ KRepoBody(t, LockResume(cmd_request_lock, t), task[t])

\* the pop is done, the database holds nothing under 'klipper':
\* self.updaters['klipper'].initialize() starts; it is done:
\* self.updaters['klipper'].refresh() starts
KRepoStep(t) ==
    /\ NoneDone
    /\ task[t].kind = "krepo"
    /\ task[t].pc \in {"krepo:pop", "krepo:initialize"}
    /\ task' = [task EXCEPT ![t] =
                  IF task[t].pc = "krepo:pop"
                  THEN [Call(@, "initialize", Ref("klipper"))
                          EXCEPT !.pc = "krepo:initialize",
                                 !.ref = Ref("klipper")]
                  ELSE [Call(@, "refresh", Ref("klipper"))
                          EXCEPT !.pc = "krepo:refresh",
                                 !.ref = Ref("klipper")]]
    /\ updaters' =
           IF task[t].pc = "krepo:pop"
           THEN [updaters EXCEPT !["klipper"].stored =
                    get_persistent_data("BaseDeploy", <<>>, UnknownVersion)]
           ELSE updaters
    /\ UNCHANGED <<order, cmd_request_lock,
                   initial_refresh_complete, klippy_identified_evt,
                   cmd_helper, available_packages, is_printing,
                   validation_enabled, now, next_tick, started, partVars,
                   unlocked_writes>>

\* the refresh returns or raises; the lock is released; observers are told
\* when notify is set
KRepoDone(t) ==
    /\ NoneDone
    /\ task[t].kind = "krepo"
    /\ task[t].pc = "krepo:refresh"
    /\ \E out \in RefreshOutcomes(task[t].ref) :
         /\ updaters' = RefreshUpdaters(updaters, task[t].ref, out)
         /\ task' = [task EXCEPT ![t] =
                       Finish([@ EXCEPT !.outcome = out.ret],
                              IF out.ret = "raise" THEN "raised"
                                 ELSE IF @.flag THEN "refreshed notified"
                                 ELSE "refreshed")]
    /\ cmd_request_lock' = LockRelease(cmd_request_lock)
    /\ UNCHANGED <<order, initial_refresh_complete, klippy_identified_evt,
                   cmd_helper, available_packages, is_printing,
                   validation_enabled, now, next_tick, started, partVars,
                   unlocked_writes>>

(***************************************************************************)
(* The specification.                                                      *)
(***************************************************************************)
UpdateTargets == {"system", "klipper", Unknown}
RefreshTargets == {None, "klipper", Unknown}
RecoveryTargets == {"klipper", "fluidd", Unknown}
RollbackTargets == {"fluidd", Unknown}

\* component_init and the observer
BootNext ==
    \/ ComponentInitStart
    \/ ComponentInitStep
    \/ \E t \in Tasks : Reap(t)

\* component_init, the device, and the observer
StartNext ==
    \/ BootNext
    \/ PrintingChanges

\* update requests
SingleUpdateNext ==
    \/ \E t \in RequestTasks, app \in UpdateTargets : UpdateRequest(t, app)
    \/ \E t \in RequestTasks : UpdateResume(t)
    \/ \E t \in RequestTasks : UpdateDone(t)

\* update requests, full updates, and klippy's identification
UpdateNext ==
    \/ SingleUpdateNext
    \/ \E t \in RequestTasks : FullUpdateRequest(t)
    \/ \E t \in RequestTasks : FullResume(t)
    \/ \E t \in RequestTasks : FullPhaseDone(t)
    \/ \E t \in RequestTasks : FullKlipperDone(t)
    \/ \E t \in RequestTasks : FullKlipperRestarted(t)
    \/ \E t \in RequestTasks : FullWaitDone(t)
    \/ \E t \in RequestTasks : FullMoonrakerDone(t)
    \/ \E t \in RequestTasks : FullMoonrakerRestarted(t)
    \/ \E valid \in BOOLEAN, kinfo \in KlippyInfos :
          KlippyIdentified(valid, kinfo)
    \/ \E t \in KRepoTasks : KRepoStart(t)
    \/ \E t \in KRepoTasks : KRepoResume(t)
    \/ \E t \in KRepoTasks : KRepoStep(t)
    \/ \E t \in KRepoTasks : KRepoDone(t)

\* status and refresh requests, and the refresh timer
RefreshNext ==
    \/ ValidationEnds
    \/ \E t \in RequestTasks, refresh \in BOOLEAN : StatusRequest(t, refresh)
    \/ \E t \in RequestTasks : StatusResume(t)
    \/ \E t \in RequestTasks : StatusRefreshDone(t)
    \/ \E t \in RequestTasks, name \in RefreshTargets : RefreshRequest(t, name)
    \/ \E t \in RequestTasks : RefreshResume(t)
    \/ \E t \in RequestTasks : RefreshDone(t)
    \/ \E cur_hour \in Hours : AutoRefreshTick(cur_hour)
    \/ AutoResume
    \/ AutoRefreshDone

\* recovery and rollback requests
RepairNext ==
    \/ \E t \in RequestTasks, app \in RecoveryTargets : RecoveryRequest(t, app)
    \/ \E t \in RequestTasks : RecoveryResume(t)
    \/ \E t \in RequestTasks : RecoveryDone(t)
    \/ \E t \in RequestTasks, app \in RollbackTargets : RollbackRequest(t, app)
    \/ \E t \in RequestTasks : RollbackResume(t)
    \/ \E t \in RequestTasks : RollbackDone(t)

(***************************************************************************)
(* PackageDeploy: provider selection and update                            *)
(***************************************************************************)
\* initialize() that goes to the fallback whatever PackageKit answered
initialize_provider_no_pkgkit(use_packagekit, pkgkit_ok, apt_found, apt_ok) ==
    IF apt_found /\ apt_ok
    THEN [provider |-> "AptCliProvider", warnings |-> 0]
    ELSE [provider |-> "BasePackageProvider", warnings |-> 1]

\* initialize(): PackageKit when enabled and initialized, else the fallback,
\* else BasePackageProvider and the warning.  _get_fallback_provider answers
\* None when "command -v apt" fails or when AptCliProvider.initialize raises
initialize_provider(use_packagekit, pkgkit_ok, apt_found, apt_ok) ==
    LET try_fallback == ~(use_packagekit /\ pkgkit_ok)
        fallback == IF apt_found /\ apt_ok THEN "AptCliProvider" ELSE None
    IN IF ~try_fallback
       THEN [provider |-> "PackageKitProvider", warnings |-> 0]
       ELSE IF fallback = None
       THEN [provider |-> "BasePackageProvider", warnings |-> 1]
       ELSE [provider |-> fallback, warnings |-> 0]

\* PackageDeploy.initialize, with what it finds in the database and on the
\* host
PackageInitialize(use_packagekit, pkgkit_ok, apt_found, apt_ok, packages) ==
    /\ package_deploy.pc = "new"
    /\ LET sel == initialize_provider(use_packagekit, pkgkit_ok,
                                      apt_found, apt_ok)
       IN package_deploy' =
              [package_deploy EXCEPT
                 !.pc = "ready",
                 !.use_packagekit = use_packagekit,
                 !.pkgkit_ok = pkgkit_ok,
                 !.apt_found = apt_found,
                 !.apt_ok = apt_ok,
                 !.provider = sel.provider,
                 !.warnings = @ + sel.warnings,
                 !.available_packages = packages,
                 !.stored = packages]
    /\ UNCHANGED <<orchVars, transaction, shell_command, pk_provider,
                   web_client>>

\* what a call of a provider method can do: every method of
\* BasePackageProvider raises
ProviderResults(provider) ==
    IF provider = "BasePackageProvider" THEN {"raise"} ELSE {"ok", "raise"}

\* update() that empties the catalog before the provider is called
package_update_clears_first(pd, refreshed, upgraded) ==
    IF pd.available_packages = <<>>
    THEN [pd EXCEPT !.calls = <<>>, !.notes = <<>>, !.ret = "false"]
    ELSE [pd EXCEPT !.calls = <<"refresh_packages">>,
                    !.notes = <<"Updating packages...">>,
                    !.available_packages = <<>>,
                    !.ret = IF refreshed = "ok" /\ upgraded = "ok"
                            THEN "true" ELSE "raised"]

\* PackageDeploy.update: refreshed and upgraded are what refresh_packages
\* and upgrade_system do when they are called
package_update(pd, refreshed, upgraded) ==
    IF pd.available_packages = <<>>
    THEN [pd EXCEPT !.calls = <<>>, !.notes = <<>>, !.ret = "false"]
    ELSE IF refreshed = "raise"
    THEN [pd EXCEPT !.calls = <<"refresh_packages">>,
                    !.notes = <<"Updating packages...">>,
                    !.ret = "raised"]
    ELSE IF upgraded = "raise"
    THEN [pd EXCEPT !.calls = <<"refresh_packages", "upgrade_system">>,
                    !.notes = <<"Updating packages...">>,
                    !.ret = "raised"]
    ELSE [pd EXCEPT !.calls = <<"refresh_packages", "upgrade_system">>,
                    !.notes = <<"Updating packages...",
                                "Package update finished...">>,
                    !.available_packages = <<>>,
                    !.stored = get_persistent_data(
                                   "PackageDeploy", <<>>,
                                   UnknownVersion).packages,
                    !.ret = "true"]

PackageUpdate(refreshed, upgraded) ==
    /\ package_deploy.pc = "ready"
    /\ package_deploy' = package_update(package_deploy, refreshed, upgraded)
    /\ UNCHANGED <<orchVars, transaction, shell_command, pk_provider,
                   web_client>>

\* refresh(): the catalog get_packages answers with is kept, a failure is
\* logged; the state is saved either way
PackageRefresh(result, packages) ==
    /\ package_deploy.pc = "ready"
    /\ LET cat == IF result = "ok" THEN packages
                  ELSE package_deploy.available_packages
       IN package_deploy' =
              [package_deploy EXCEPT
                 !.available_packages = cat,
                 !.stored = get_persistent_data("PackageDeploy", cat,
                                                UnknownVersion).packages]
    /\ UNCHANGED <<orchVars, transaction, shell_command, pk_provider,
                   web_client>>

PackageNext ==
    \/ \E use_packagekit \in BOOLEAN, pkgkit_ok \in BOOLEAN,
          apt_found \in BOOLEAN, apt_ok \in BOOLEAN, packages \in PkgLists :
          PackageInitialize(use_packagekit, pkgkit_ok, apt_found, apt_ok,
                            packages)
    \/ \E refreshed \in ProviderResults(package_deploy.provider),
          upgraded \in ProviderResults(package_deploy.provider) :
          PackageUpdate(refreshed, upgraded)
    \/ \E result \in ProviderResults(package_deploy.provider),
          packages \in PkgLists : PackageRefresh(result, packages)

(***************************************************************************)
(* PackageKitTransaction.  PkEnum is imported from thirdparty.packagekit;  *)
(* its roles, statuses and exit codes are told apart by name.              *)
(***************************************************************************)
MaxRuns == 2
MaxSignals == 5

GET_PKG_ROLES == {"resolve", "get_packages", "get_updates"}
QUERY_ROLES == GET_PKG_ROLES \cup {"get_repo_list"}
PROGRESS_STATUS == {"running", "install", "update"}

\* what the backend is made to send
BackendRoles == {"get_updates", "get_repo_list", "install_packages"}
BackendStatuses == {"wait", "install"}
Percentages == {10, 55}
PackageIds == {"curl", "vim"}
Infos == {"available", "finished"}
ErrorTexts == {"no-network", "no-cache"}
Exits == {"success", "failed"}

\* Future.set_result and Future.set_exception: a future that is done raises
\* InvalidStateError and keeps what it holds (done tells that the handler goes
\* on after the call)
Settle(tx, how, value) ==
    IF tx.tfut = "pending"
    THEN [tx |-> [tx EXCEPT !.tfut = how, !.value = value], done |-> TRUE]
    ELSE [tx |-> [tx EXCEPT !.invalid = @ + 1], done |-> FALSE]

\* a line for cmd_helper.notify_update_response, under "if self.notify"
Notify(tx, line) ==
    IF tx.notify THEN [tx EXCEPT !.notes = Append(@, line)] ELSE tx

\* a signal of the backend reaches its handler
Signal(tx) ==
    /\ transaction.subscribed
    /\ transaction.signals < MaxSignals
    /\ transaction' = [tx EXCEPT !.signals = @ + 1]
    /\ UNCHANGED <<orchVars, package_deploy, shell_command, pk_provider,
                   web_client>>

\* run() that does not look at tfut
RunAgain(notify) ==
    /\ transaction.runs < MaxRuns
    /\ transaction' =
           [transaction EXCEPT !.runs = @ + 1, !.notify = notify,
                               !.run_notify = notify, !.tfut = "pending",
                               !.start = "created",
                               !.backend_calls = @ + 1]
    /\ UNCHANGED <<orchVars, package_deploy, shell_command, pk_provider,
                   web_client>>

\* run(): raises when the transaction was run before, else creates the
\* future and the task that starts the transaction
Run(notify) ==
    /\ transaction.runs < MaxRuns
    /\ transaction' =
           IF transaction.tfut # None
           THEN [transaction EXCEPT !.runs = @ + 1, !.run_errors = @ + 1]
           ELSE [transaction EXCEPT !.runs = @ + 1, !.notify = notify,
                                    !.run_notify = notify,
                                    !.tfut = "pending",
                                    !.start = "created",
                                    !.backend_calls = @ + 1]
    /\ UNCHANGED <<orchVars, package_deploy, shell_command, pk_provider,
                   web_client>>

\* _start_transaction that only logs what it catches
StartTransactionLogs(outcome) ==
    /\ transaction.start = "created"
    /\ transaction' =
           IF outcome = "ok"
           THEN [transaction EXCEPT !.start = "calling", !.subscribed = TRUE]
           ELSE [transaction EXCEPT !.start = "raised",
                                    !.subscribed = (outcome = "subscribe")]
    /\ UNCHANGED <<orchVars, package_deploy, shell_command, pk_provider,
                   web_client>>

\* _start_transaction up to the call of the method: the transaction object
\* is created and the handlers are connected, or one of the two raises
\* ("create", "subscribe") and the future takes the exception
StartTransaction(outcome) ==
    /\ transaction.start = "created"
    /\ transaction' =
           IF outcome = "ok"
           THEN [transaction EXCEPT !.start = "calling", !.subscribed = TRUE]
           ELSE [Settle(transaction, "exception", outcome).tx
                   EXCEPT !.start = "raised",
                          !.subscribed = (outcome = "subscribe")]
    /\ UNCHANGED <<orchVars, package_deploy, shell_command, pk_provider,
                   web_client>>

\* "await func(*args)" returns or raises
CallEnds(outcome) ==
    /\ transaction.start = "calling"
    /\ transaction' =
           IF outcome = "ok"
           THEN [transaction EXCEPT !.start = "called"]
           ELSE [Settle(transaction, "exception", "call").tx
                   EXCEPT !.start = "raised"]
    /\ UNCHANGED <<orchVars, package_deploy, shell_command, pk_provider,
                   web_client>>

\* _on_package_signal that keeps every package
OnPackageKept(info, package_id) ==
    Signal([transaction EXCEPT !.result = Append(@, <<"package", package_id>>)])

\* _on_package_signal: kept in the roles that ask for packages, else
\* _notify_package, which is silent about Info.FINISHED
OnPackage(info, package_id) ==
    Signal(IF transaction.role \in GET_PKG_ROLES
           THEN [transaction EXCEPT
                   !.result = Append(@, <<"package", package_id>>)]
           ELSE IF info = "finished" THEN transaction
           ELSE Notify(transaction, "package"))

\* _on_repo_detail_signal: kept in the role get_repo_list, else _notify_repo
OnRepoDetail(repo_id) ==
    Signal(IF transaction.role = "get_repo_list"
           THEN [transaction EXCEPT !.result = Append(@, <<"repo", repo_id>>)]
           ELSE Notify(transaction, "repo"))

\* _on_item_progress_signal only logs
OnItemProgress ==
    Signal(transaction)

\* _on_error_signal
OnErrorCode(details) ==
    Signal([transaction EXCEPT !.err_msg = details])

\* _on_finished_signal that never uses err_msg
OnFinishedGeneric(exit) ==
    LET set == IF exit = "success"
               THEN Settle(transaction, "result", transaction.result)
               ELSE Settle(transaction, "exception", "exit failed")
    IN Signal([(IF set.done THEN Notify(set.tx, "exit") ELSE set.tx)
                 EXCEPT !.finished = TRUE])

\* _on_finished_signal: the future takes the result, or the error made of
\* err_msg or else of the exit code; the exit line follows unless the future
\* raised
OnFinished(exit) ==
    LET set == IF exit = "success"
               THEN Settle(transaction, "result", transaction.result)
               ELSE Settle(transaction, "exception",
                           IF transaction.err_msg # ""
                           THEN transaction.err_msg ELSE "exit failed")
    IN Signal([(IF set.done THEN Notify(set.tx, "exit") ELSE set.tx)
                 EXCEPT !.finished = TRUE])

\* the role setter that leaves notify alone
set_role_keeps_notify(tx, role) ==
    Notify([tx EXCEPT !.role = role,
                      !.was_query = @ \/ role \in QUERY_ROLES],
           "started")

\* the role setter
set_role(tx, role) ==
    Notify([tx EXCEPT !.role = role,
                      !.notify = @ /\ role \notin QUERY_ROLES,
                      !.was_query = @ \/ role \in QUERY_ROLES],
           "started")

\* _notify_progress
notify_progress(tx) ==
    IF tx.percentage <= 100 THEN Notify(tx, "progress") ELSE tx

\* the percentage setter that notifies in every status
set_percentage_any_status(tx, percent) ==
    notify_progress([tx EXCEPT !.percentage = percent])

\* the percentage setter
set_percentage(tx, percent) ==
    IF tx.status \in PROGRESS_STATUS
    THEN notify_progress([tx EXCEPT !.percentage = percent])
    ELSE [tx EXCEPT !.percentage = percent]

\* _on_properties_changed, one property at a time: the setters of role,
\* status, percentage and download_size_remaining
OnPropertiesChanged(prop, value) ==
    Signal(CASE prop = "role" -> set_role(transaction, value)
             [] prop = "status" ->
                    [transaction EXCEPT !.status = value, !.percentage = 101]
             [] prop = "percentage" -> set_percentage(transaction, value)
             [] OTHER -> notify_progress(transaction))

TransactionNext ==
    \/ \E notify \in BOOLEAN : Run(notify)
    \/ \E outcome \in {"ok", "create", "subscribe"} : StartTransaction(outcome)
    \/ \E outcome \in {"ok", "raise"} : CallEnds(outcome)
    \/ \E info \in Infos, package_id \in PackageIds :
          OnPackage(info, package_id)
    \/ \E repo_id \in {"main"} : OnRepoDetail(repo_id)
    \/ OnItemProgress
    \/ \E details \in ErrorTexts : OnErrorCode(details)
    \/ \E exit \in Exits : OnFinished(exit)
    \/ \E role \in BackendRoles : OnPropertiesChanged("role", role)
    \/ \E status \in BackendStatuses : OnPropertiesChanged("status", status)
    \/ \E percent \in Percentages : OnPropertiesChanged("percentage", percent)
    \/ OnPropertiesChanged("download_size_remaining", 0)

(***************************************************************************)
(* CommandHelper.run_cmd                                                   *)
(***************************************************************************)
MaxRetries == 3
Timeouts == {20, 600}

\* run_cmd is called: with range(retries) empty the else clause of the loop
\* raises at once, else the first scmd.run() is awaited
RunCmd(retries, timeout, notify) ==
    /\ shell_command.pc # "run"
    /\ shell_command' =
           [pc |-> IF retries = 0 THEN "done" ELSE "run",
            retries |-> retries, timeout |-> timeout, notify |-> notify,
            tries |-> <<>>,
            ret |-> IF retries = 0 THEN "Shell Command Error" ELSE None]
    /\ UNCHANGED <<orchVars, package_deploy, transaction, pk_provider,
                   web_client>>

\* a loop without its break
RunCmdAttemptNoBreak(ok) ==
    /\ shell_command.pc = "run"
    /\ LET tries == Append(shell_command.tries,
                           [timeout |-> shell_command.timeout, ok |-> ok])
       IN shell_command' =
              IF Len(tries) = shell_command.retries
              THEN [shell_command EXCEPT
                      !.pc = "done", !.tries = tries,
                      !.ret = IF ok THEN "ok" ELSE "Shell Command Error"]
              ELSE [shell_command EXCEPT !.tries = tries]
    /\ UNCHANGED <<orchVars, package_deploy, transaction, pk_provider,
                   web_client>>

\* scmd.run(timeout=timeout, sig_idx=sig_idx) returns: True breaks the loop,
\* False goes to the next round or, after the last, to the else clause
RunCmdAttempt(ok) ==
    /\ shell_command.pc = "run"
    /\ LET tries == Append(shell_command.tries,
                           [timeout |-> shell_command.timeout, ok |-> ok])
       IN shell_command' =
              IF ok
              THEN [shell_command EXCEPT
                      !.pc = "done", !.tries = tries, !.ret = "ok"]
              ELSE IF Len(tries) = shell_command.retries
              THEN [shell_command EXCEPT
                      !.pc = "done", !.tries = tries,
                      !.ret = "Shell Command Error"]
              ELSE [shell_command EXCEPT !.tries = tries]
    /\ UNCHANGED <<orchVars, package_deploy, transaction, pk_provider,
                   web_client>>

RunCmdNext ==
    \/ \E retries \in 0 .. MaxRetries, timeout \in Timeouts,
          notify \in BOOLEAN : RunCmd(retries, timeout, notify)
    \/ \E ok \in BOOLEAN : RunCmdAttempt(ok)

(***************************************************************************)
(* PackageKitProvider: the transactions of a provider call                 *)
(***************************************************************************)
\* the package ids PackageKit reports: "name;version;arch;repo"
ProviderPackageIds == {"curl;7.88.1;arm64;debian", "vim;9.0;arm64;debian"}
\* the package lists a caller asks to install
PackageLists == {<<"curl">>, <<"curl", "vim">>}
\* the provider calls of the contract
ProviderMethods == {"refresh_packages", "get_packages", "install_packages",
                    "upgrade_system"}
\* what run() of a transaction returns: the records its package signals
\* appended, none for a transaction that is not a query
QueryResults(method) ==
    IF method \in {"get_updates", "resolve"}
    THEN {<<>>}
         \cup {<< <<"package", a>> >> : a \in ProviderPackageIds}
         \cup {<< <<"package", a>>, <<"package", b>> >> :
                  a \in ProviderPackageIds, b \in ProviderPackageIds}
    ELSE {<<>>}

\* pkg_id.split(";")[0]
package_name(pkg_id) ==
    CASE pkg_id = "curl;7.88.1;arm64;debian" -> "curl"
      [] pkg_id = "vim;9.0;arm64;debian" -> "vim"
      [] OTHER -> pkg_id

\* [info['package_id'] for info in pkgs if 'package_id' in info]
package_ids(pkgs) ==
    LET has_id(info) == info[1] = "package"
        kept == SelectSeq(pkgs, has_id)
    IN [i \in 1 .. Len(kept) |-> kept[i][2]]

\* a run_transaction that runs the transaction object of the first step again
run_transaction_reused(p, method, args, notify) ==
    [p EXCEPT !.pc = "run",
              !.created = IF @ = 0 THEN 1 ELSE @,
              !.log = Append(@, [txn |-> 1, method |-> method,
                                 args |-> args, notify |-> notify])]

\* run_transaction: create_transaction(), then transaction.run(method, *args,
\* notify=notify) is awaited
run_transaction(p, method, args, notify) ==
    [p EXCEPT !.pc = "run",
              !.created = @ + 1,
              !.log = Append(@, [txn |-> p.created + 1, method |-> method,
                                 args |-> args, notify |-> notify])]

\* a provider call starts and awaits its first transaction: refresh_cache
\* for refresh_packages and install_packages, get_updates for get_packages
\* and upgrade_system
ProviderCall(method, package_list, notify) ==
    /\ pk_provider.pc \in {"idle", "returned", "raised"}
    /\ LET p == [NewProvider EXCEPT
                   !.method = method,
                   !.notify = notify /\ method \in {"refresh_packages",
                                                    "install_packages"},
                   !.package_list = IF method = "install_packages"
                                    THEN package_list ELSE <<>>]
       IN pk_provider' =
             IF method \in {"refresh_packages", "install_packages"}
             THEN run_transaction(p, "refresh_cache", <<>>, p.notify)
             ELSE run_transaction(p, "get_updates", <<>>, FALSE)
    /\ UNCHANGED <<orchVars, package_deploy, transaction, shell_command,
                   web_client>>

\* the transaction awaited returns pkgs or raises; the provider call goes on
\* to its next transaction, returns, or raises with it
ProviderTransactionEnds(outcome, pkgs) ==
    /\ pk_provider.pc = "run"
    /\ LET last == pk_provider.log[Len(pk_provider.log)].method
           p == [pk_provider EXCEPT !.results = Append(@, pkgs)]
           pkg_ids == package_ids(pkgs)
           returned == [p EXCEPT !.pc = "returned"]
       IN /\ pkgs \in QueryResults(last)
          /\ pk_provider' =
                IF outcome = "raise"
                THEN [pk_provider EXCEPT !.pc = "raised"]
                ELSE CASE p.method = "get_packages" ->
                            [returned EXCEPT !.ret =
                                [i \in 1 .. Len(pkg_ids) |->
                                    package_name(pkg_ids[i])]]
                       [] p.method = "install_packages"
                          /\ last = "refresh_cache" ->
                            run_transaction(p, "resolve", p.package_list,
                                            FALSE)
                       [] p.method = "install_packages" /\ last = "resolve"
                          /\ pkg_ids # <<>> ->
                            run_transaction(p, "install_packages", pkg_ids,
                                            p.notify)
                       [] p.method = "upgrade_system" /\ last = "get_updates"
                          /\ pkg_ids # <<>> ->
                            run_transaction(p, "update_packages", pkg_ids,
                                            TRUE)
                       [] OTHER -> returned
    /\ UNCHANGED <<orchVars, package_deploy, transaction, shell_command,
                   web_client>>

ProviderNext ==
    \/ \E method \in ProviderMethods, package_list \in PackageLists,
          notify \in BOOLEAN : ProviderCall(method, package_list, notify)
    \/ \E outcome \in {"ok", "raise"},
          pkgs \in QueryResults("get_updates") :
          ProviderTransactionEnds(outcome, pkgs)

(***************************************************************************)
(* WebClientDeploy: initialize, refresh, update and rollback               *)
(***************************************************************************)
Versions == {"v1", "v2"}
\* the option 'repo' of the client
ClientRepo == "fluidd-core/fluidd"
\* the text of a .version file that holds the version v
version_file(v) ==
    CASE v = "v1" -> "v1\n"
      [] v = "v2" -> "v2\n"
      [] OTHER -> v
\* version.strip()
strip(text) ==
    CASE text = "v1\n" -> "v1"
      [] text = "v2\n" -> "v2"
      [] OTHER -> text

\* what the archive of the release v unpacks to: the manifest of the client
\* and a release_info.json or a .version file with the version, or neither
Archives(v) ==
    {[files |-> "release_info", text |-> v, manifest |-> TRUE],
     [files |-> "dot_version", text |-> version_file(v), manifest |-> TRUE],
     [files |-> "none", text |-> "", manifest |-> TRUE]}
\* the directory after an extraction that failed before it unpacked
NoDir == [files |-> "no_dir", text |-> "", manifest |-> FALSE]
\* what a device may hold when the client is first configured: a release, a
\* .version file without a manifest, a release_info.json that cannot be
\* read, or no directory at all
InstallDirs ==
    UNION {Archives(v) : v \in Versions}
    \cup {[files |-> "dot_version", text |-> "v1\n", manifest |-> FALSE],
          [files |-> "broken_info", text |-> "", manifest |-> TRUE],
          NoDir}
\* what github_api_request answers for the latest release, or for a tag: an
\* error, or a release whose first asset may lack its download url
Releases(tags, urls) ==
    {[status |-> "error", name |-> "?", url |-> "?"]}
    \cup {[status |-> "ok", name |-> v, url |-> u] : v \in tags, u \in urls}

\* _validate_client_info: release_info.json when it is a file, else .version
\* and the manifest; a directory that is missing is not valid
validate_client_info(w) ==
    LET d == w.disk
    IN CASE d.files = "release_info" ->
                [w EXCEPT !.version = d.text, !.valid = TRUE]
         [] d.files = "dot_version" ->
                [w EXCEPT !.version = strip(d.text), !.valid = d.manifest]
         [] d.files = "none" -> [w EXCEPT !.valid = d.manifest]
         [] OTHER -> [w EXCEPT !.valid = FALSE]

\* get_persistent_data
web_persistent_data(w) ==
    [saved |-> TRUE, version |-> w.version,
     remote_version |-> w.remote_version,
     rollback_version |-> w.rollback_version,
     rollback_repo |-> w.rollback_repo, dl_url |-> w.dl_url,
     last_error |-> w.last_error]

\* _save_state
web_save_state(w) == [w EXCEPT !.storage = web_persistent_data(w)]

\* the end of a call: what an observer of the object records
Ends(w0, w, op, ret, failed_extract) ==
    [w EXCEPT !.pc = "ready", !.op = op, !.ret = ret,
              !.torn = IF ret = "true" THEN FALSE
                       ELSE w0.torn \/ failed_extract]

\* the client's files are put on the device before moonraker first runs
WebInstalled(d) ==
    /\ web_client = NewWebClient
    /\ d # NewWebClient.disk
    /\ web_client' = [web_client EXCEPT !.disk = d]
    /\ UNCHANGED <<orchVars, package_deploy, transaction, shell_command,
                   pk_provider>>

\* an initialize() that takes every field from the database entry
WebInitializeFromStorage ==
    /\ LET w0 == [NewWebClient EXCEPT !.disk = web_client.disk,
                                      !.storage = web_client.storage,
                                      !.torn = web_client.torn]
           w1 == validate_client_info(w0)
           s == w1.storage
       IN web_client' =
             Ends(web_client,
                  IF s.saved
                  THEN [w1 EXCEPT !.version = s.version,
                                  !.remote_version = s.remote_version,
                                  !.rollback_version = s.rollback_version,
                                  !.rollback_repo = s.rollback_repo,
                                  !.last_error = s.last_error,
                                  !.dl_url = s.dl_url]
                  ELSE [w1 EXCEPT !.rollback_version = w1.version,
                                  !.rollback_repo =
                                      IF w1.valid THEN ClientRepo ELSE "?"],
                  "initialize", "ok", FALSE)
    /\ UNCHANGED <<orchVars, package_deploy, transaction, shell_command,
                   pk_provider>>

\* moonraker starts: __init__, then initialize(): the install directory is
\* validated first, then each field is taken from the database entry, the
\* version only when the directory gave none
WebInitialize ==
    /\ LET w0 == [NewWebClient EXCEPT !.disk = web_client.disk,
                                      !.storage = web_client.storage,
                                      !.torn = web_client.torn]
           w1 == validate_client_info(w0)
           s == w1.storage
           w2 == IF w1.version = "?" /\ s.saved
                 THEN [w1 EXCEPT !.version = s.version]
                 ELSE w1
       IN web_client' =
             Ends(web_client,
                  IF s.saved
                  THEN [w2 EXCEPT !.remote_version = s.remote_version,
                                  !.rollback_version = s.rollback_version,
                                  !.rollback_repo = s.rollback_repo,
                                  !.last_error = s.last_error,
                                  !.dl_url = s.dl_url]
                  ELSE [w2 EXCEPT !.rollback_version = w2.version,
                                  !.rollback_repo =
                                      IF w2.valid THEN ClientRepo ELSE "?"],
                  "initialize", "ok", FALSE)
    /\ UNCHANGED <<orchVars, package_deploy, transaction, shell_command,
                   pk_provider>>

\* _fetch_github_version, as far as it writes last_error
fetch_github_version(w, release) ==
    [w EXCEPT !.last_error = IF release.status = "error"
                             THEN "Github Request Error" ELSE ""]

\* _get_remote_version: nothing is asked of an invalid install; an answer
\* gives remote_version and dl_info
get_remote_version(w, release) ==
    IF ~w.valid THEN w
    ELSE IF release.status = "error" THEN fetch_github_version(w, release)
    ELSE [fetch_github_version(w, release)
            EXCEPT !.remote_version = release.name, !.dl_url = release.url]

\* refresh(): validation when the install was not valid, the remote
\* version, and the state is saved
WebRefresh(release) ==
    /\ web_client.pc = "ready"
    /\ LET w1 == IF web_client.valid THEN web_client
                 ELSE validate_client_info(web_client)
       IN web_client' =
             Ends(web_client, web_save_state(get_remote_version(w1, release)),
                  "refresh", "ok", FALSE)
    /\ UNCHANGED <<orchVars, package_deploy, transaction, shell_command,
                   pk_provider>>

\* an update(rollback_info) that sets the version to the one it installed
install_release_named(w0, w, dl_url, rollback, installed, fail, archive) ==
    IF dl_url = "?" \/ fail = "download"
    THEN Ends(w0, w, IF rollback THEN "rollback" ELSE "update", "raise", FALSE)
    ELSE IF fail = "extract"
    THEN Ends(w0, [w EXCEPT !.disk = archive],
              IF rollback THEN "rollback" ELSE "update", "raise", TRUE)
    ELSE LET w1 == validate_client_info(
                       [w EXCEPT !.disk = archive, !.version = installed])
             w2 == IF w1.valid /\ ~rollback
                   THEN [w1 EXCEPT !.rollback_version = w.version,
                                   !.rollback_repo = ClientRepo]
                   ELSE w1
         IN Ends(w0, web_save_state(w2),
                 IF rollback THEN "rollback" ELSE "update", "true", FALSE)

\* update(rollback_info) from the check of dl_url on: the download and the
\* extraction, which may fail and leave the directory as archive says; then
\* self.version = self.remote_version, the validation, the rollback fields
\* of an update that is no rollback, and the state is saved
install_release(w0, w, dl_url, rollback, installed, fail, archive) ==
    IF dl_url = "?" \/ fail = "download"
    THEN Ends(w0, w, IF rollback THEN "rollback" ELSE "update", "raise", FALSE)
    ELSE IF fail = "extract"
    THEN Ends(w0, [w EXCEPT !.disk = archive],
              IF rollback THEN "rollback" ELSE "update", "raise", TRUE)
    ELSE LET w1 == validate_client_info(
                       [w EXCEPT !.disk = archive,
                                 !.version = w.remote_version])
             w2 == IF w1.valid /\ ~rollback
                   THEN [w1 EXCEPT !.rollback_version = w.version,
                                   !.rollback_repo = ClientRepo]
                   ELSE w1
         IN Ends(w0, web_save_state(w2),
                 IF rollback THEN "rollback" ELSE "update", "true", FALSE)

\* what a failed or finished extraction of the archive leaves
Extracted(v) == Archives(v) \cup {NoDir}

\* update(): raises on an invalid install, asks for the remote version when
\* it is unknown, returns False when up to date, else installs the release
WebUpdate(release, fail, archive) ==
    /\ web_client.pc = "ready"
    /\ LET w0 == web_client
           w1 == IF w0.remote_version = "?"
                 THEN get_remote_version(w0, release)
                 ELSE w0
       IN /\ archive \in Extracted(w1.remote_version)
          /\ fail = "extract" \/ archive # NoDir
          /\ web_client' =
                IF ~w0.valid
                THEN Ends(w0, w0, "update", "raise", FALSE)
                ELSE IF w1.remote_version = "?"
                THEN Ends(w0, w1, "update", "raise", FALSE)
                ELSE IF w1.version = w1.remote_version
                THEN Ends(w0, w1, "update", "false", FALSE)
                ELSE install_release(w0, w1, w1.dl_url, FALSE,
                                     w1.remote_version, fail, archive)
    /\ UNCHANGED <<orchVars, package_deploy, transaction, shell_command,
                   pk_provider>>

\* rollback(): raises on incomplete data, returns False when the rollback
\* version is installed, asks for the release of that tag and hands its
\* asset to update()
WebRollback(release, fail, archive) ==
    /\ web_client.pc = "ready"
    /\ LET w0 == web_client
           w1 == fetch_github_version(w0, release)
       IN /\ archive \in Extracted(w0.rollback_version)
          /\ fail = "extract" \/ archive # NoDir
          /\ release \in Releases({w0.rollback_version}, {"url", "?"})
          /\ web_client' =
                IF w0.rollback_version = "?" \/ w0.rollback_repo = "?"
                THEN Ends(w0, w0, "rollback", "raise", FALSE)
                ELSE IF w0.rollback_version = w0.version
                THEN Ends(w0, w0, "rollback", "false", FALSE)
                ELSE IF release.status = "error"
                THEN Ends(w0, w1, "rollback", "raise", FALSE)
                ELSE IF ~w1.valid
                THEN Ends(w0, w1, "rollback", "raise", FALSE)
                ELSE install_release(w0, w1, release.url, TRUE,
                                     w0.rollback_version, fail, archive)
    /\ UNCHANGED <<orchVars, package_deploy, transaction, shell_command,
                   pk_provider>>

\* how the download and the extraction of update() may end
Failures == {"none", "download", "extract"}

WebClientNext ==
    \/ \E d \in InstallDirs : WebInstalled(d)
    \/ WebInitialize
    \/ \E release \in Releases(Versions, {"url"}) : WebRefresh(release)
    \/ \E release \in Releases(Versions, {"url"}), fail \in Failures,
          archive \in UNION {Extracted(v) : v \in Versions} :
          WebUpdate(release, fail, archive)
    \/ \E release \in Releases(Versions, {"url", "?"}), fail \in Failures,
          archive \in UNION {Extracted(v) : v \in Versions} :
          WebRollback(release, fail, archive)

\* the whole program, at one reading of the wall clock
Next ==
    \/ StartNext \/ UpdateNext \/ RefreshNext \/ RepairNext
    \/ PackageNext \/ TransactionNext \/ RunCmdNext \/ ProviderNext
    \/ WebClientNext

Spec == Init /\ [][Next]_vars

\* PackageDeploy alone
PackageSpec == Init /\ [][PackageNext]_vars

\* one PackageKitTransaction and its backend
TransactionSpec == Init /\ [][TransactionNext]_vars

\* the calls of run_cmd
RunCmdSpec == Init /\ [][RunCmdNext]_vars

\* the calls of one PackageKitProvider
ProviderSpec == Init /\ [][ProviderNext]_vars

\* one WebClientDeploy over the restarts of moonraker
WebClientSpec == Init /\ [][WebClientNext]_vars

\* the update requests alone
UpdateSpec == Init /\ [][StartNext \/ UpdateNext]_vars

\* the refreshes as the wall clock advances
ClockSpec == Init /\ [][StartNext \/ RefreshNext \/ AdvanceTime]_vars

\* every operation that takes the lock, on a device that does not print:
\* is_printing only decides whether a request is refused before it comes
\* near the lock
LockSpec ==
    Init /\ [][BootNext \/ UpdateNext \/ RefreshNext \/ RepairNext]_vars

\* the requests that are refused while the device prints
MutateSpec == Init /\ [][StartNext \/ UpdateNext \/ RepairNext]_vars

\* status and refresh requests and the refresh timer, while updates are
\* requested and prints start and end
BusySpec == Init /\ [][StartNext \/ RefreshNext \/ SingleUpdateNext]_vars

(***************************************************************************)
(* Properties of the locked sections.                                      *)
(***************************************************************************)
\* the positions of a coroutine inside "async with self.cmd_request_lock" or
\* between acquire() and release()
SectionPcs == {"update:update", "full:system", "full:client", "full:klipper",
               "full:krestart", "full:kwait", "full:moonraker",
               "full:mrestart", "status:refresh", "refresh:refresh",
               "repair", "auto:refresh", "krepo:pop", "krepo:initialize",
               "krepo:refresh"}
\* the positions at which an update(), refresh(), recover() or rollback() is
\* running
CallPcs == {"update:update", "full:system", "full:client", "full:klipper",
            "full:moonraker", "status:refresh", "refresh:refresh", "repair",
            "auto:refresh", "krepo:refresh"}
InSection(t) == task[t].pc \in SectionPcs
InCall(t) == task[t].pc \in CallPcs

\* C1: at any moment at most one coroutine is inside a locked section, that
\* coroutine is the owner of the lock, and at most one Deployment update(),
\* refresh(), recover() or rollback() is running.
C1_MutualExclusion ==
    /\ \A t, u \in Tasks : InSection(t) /\ InSection(u) => t = u
    /\ \A t \in Tasks :
          InSection(t) =>
              cmd_request_lock.locked /\ cmd_request_lock.owner = t
    /\ Cardinality({t \in Tasks : InCall(t)}) <= 1

\* a Deployment call is running while a coroutine of another kind waits for
\* the lock
C1_Witness ==
    \E t, u \in Tasks :
        /\ InCall(t)
        /\ task[u].pc = "wait"
        /\ task[u].kind # task[t].kind

\* C2: no update() is started by request_update or request_full_update at a
\* moment at which is_printing() answers true.
C2_NoUpdateWhileBusy ==
    \A t \in RequestTasks : ~task[t].busy_update

ArrivedDuringOwnTarget(t) ==
    /\ task[t].kind = "update"
    /\ task[t].pc = "done"
    /\ task[t].calls = <<>>
    /\ cmd_helper.cur_update_app = task[t].app

\* C4 as stated: a request_update that arrives while its target is the active
\* operation is answered 'is currently being updated'.
C4_AnsweredAlreadyUpdating ==
    \A t \in RequestTasks :
        ArrivedDuringOwnTarget(t) =>
            task[t].result = "is currently being updated"

\* C4: a request_update that arrives while its target is the active operation
\* ends in that same step, without waiting for the lock, without a call of
\* update() and without a change of the session or of the lock; the answer
\* is 'is currently being updated' when the device is not printing and
\* 'Update Refused: Klippy is printing' when it is.
C4_RefusedWithoutWaiting ==
    [][\A t \in RequestTasks :
          (/\ task[t].kind = "idle"
           /\ task'[t].kind = "update"
           /\ cmd_helper.cur_update_app = task'[t].app)
          => /\ task'[t].pc = "done"
             /\ task'[t].calls = <<>>
             /\ task'[t].result =
                    IF is_printing
                    THEN "Update Refused: Klippy is printing"
                    ELSE "is currently being updated"
             /\ cmd_helper' = cmd_helper
             /\ cmd_request_lock' = cmd_request_lock]_vars

\* the session of an update is active, the device is not printing, and a
\* second request for the same target has been answered
C4_Witness ==
    \E t \in RequestTasks :
        /\ ArrivedDuringOwnTarget(t)
        /\ ~is_printing
        /\ task[t].result = "is currently being updated"
        /\ cmd_request_lock.locked

\* the answers of the requests refused because klippy is printing
BusyRefusals == {"Update Refused: Klippy is printing",
                 "Recovery Attempt Refused: Klippy is printing",
                 "Rollback Attempt Refused: Klippy is printing"}

\* C5: a request_update, request_recovery or request_rollback that arrives
\* while is_printing() answers true ends in that same step with a refusal:
\* the lock is neither taken nor waited for, the session is not set, and no
\* Deployment call is made.
C5_BusyRejected ==
    [][\A t \in RequestTasks :
          (/\ task[t].kind = "idle"
           /\ task'[t].kind \in {"update", "recover", "rollback"}
           /\ is_printing)
          => /\ task'[t].pc = "done"
             /\ task'[t].result \in BusyRefusals
             /\ task'[t].calls = <<>>
             /\ cmd_helper' = cmd_helper
             /\ cmd_request_lock' = cmd_request_lock]_vars

\* a recovery has been refused while another operation holds the lock
C5_Witness ==
    \E t \in RequestTasks :
        /\ task[t].kind = "recover"
        /\ task[t].pc = "done"
        /\ task[t].result = "Recovery Attempt Refused: Klippy is printing"
        /\ is_printing
        /\ cmd_request_lock.locked

\* C6: when update() raises during request_update(target), the last
\* notification carries the error with the target's name, is tagged with the
\* session of the target (so it was sent before the session was cleared) and
\* has complete = true; the request raises; and when it has ended the
\* session is clear and the lock is released.
C6_UpdateFailure ==
    \A t \in RequestTasks :
        (/\ task[t].kind = "update"
         /\ task[t].pc = "done"
         /\ task[t].result = "raised")
        => /\ task[t].last_note =
                  [message |-> <<"Error updating", task[t].app>>,
                   application |-> task[t].app,
                   proc_id |-> t,
                   complete |-> TRUE]
           /\ cmd_helper = ClearHelper
           /\ ~cmd_request_lock.locked
           /\ cmd_request_lock.owner # t

\* the update() of a request_update has raised
C6_Witness ==
    \E t \in RequestTasks :
        /\ task[t].kind = "update"
        /\ task[t].pc = "done"
        /\ task[t].result = "raised"
        /\ Len(task[t].calls) = 1

\* C7: in every state in which the lock is not held the session is clear: no
\* current target, no request id, full_update and full_complete false, no
\* pending service restart, and is_update_busy() false.
C7_SessionClearWhenUnlocked ==
    ~cmd_request_lock.locked =>
        /\ cmd_helper.cur_update_app = None
        /\ cmd_helper.cur_update_id = NoTask
        /\ ~cmd_helper.full_update
        /\ ~cmd_helper.full_complete
        /\ cmd_helper.pending_service_restarts = {}
        /\ ~is_update_busy(cmd_helper)

\* a full update has ended on the failure of a phase after a service restart
\* was postponed, and the lock is free
C7_Witness ==
    \E t \in RequestTasks :
        /\ task[t].kind = "full"
        /\ task[t].pc = "done"
        /\ task[t].failed # None
        /\ Len(task[t].calls) > 3
        /\ ~cmd_request_lock.locked

\* C8 as stated: no write to the package catalog, the session fields or the
\* pending restarts is made by a task that does not hold the lock.
C8_NoUnlockedWrite == unlocked_writes = {}

\* C8: the session fields and the pending restarts are written only by the
\* task that holds the lock, and so is the package catalog but for
\* PackageDeploy.initialize(), which component_init calls without the lock.
C8_WritesUnderLock == unlocked_writes \subseteq {<<"catalog", "init">>}

\* the catalog was loaded by component_init and has since been consumed by
\* an update of the system packages
C8_Witness ==
    /\ unlocked_writes = {<<"catalog", "init">>}
    /\ available_packages = <<>>
    /\ \E t \in RequestTasks :
          /\ task[t].kind = "update"
          /\ task[t].app = "system"
          /\ task[t].pc = "done"
          /\ task[t].last_note.complete

(***************************************************************************)
(* Properties of the full update.                                          *)
(***************************************************************************)
IsUpdateCall(c) == c[1] = "update"
\* the names of the deployments whose update() a task has started, in order
UpdateNames(t) ==
    LET sel == SelectSeq(task[t].calls, IsUpdateCall)
    IN [i \in 1 .. Len(sel) |-> sel[i][2]]

IsClient(n) == n \notin {"klipper", "moonraker", "system"}
\* the system packages when configured, then the clients in map order
FirstPhases ==
    (IF "system" \in DOMAIN updaters THEN <<"system">> ELSE <<>>)
    \o SelectSeq(order, IsClient)

IsPrefix(a, b) ==
    /\ Len(a) <= Len(b)
    /\ \A i \in 1 .. Len(a) : a[i] = b[i]

\* the phases a full update has gone through are in the order of the source
FullUpdateInOrder(t) ==
    /\ \/ IsPrefix(UpdateNames(t), FirstPhases \o <<"klipper", "moonraker">>)
       \/ IsPrefix(UpdateNames(t), FirstPhases \o <<"moonraker">>)
    /\ task[t].pc \notin {"wait", "done"} => cmd_request_lock.owner = t
    /\ task[t].pc = "done" => cmd_request_lock.owner # t

\* the update() of moonraker starts in a full update that has not called the
\* update() of klipper
SkipsKlipper(t) ==
    /\ task[t].pc # "full:moonraker"
    /\ task'[t].kind = "full"
    /\ task'[t].pc = "full:moonraker"
    /\ \A i \in 1 .. Len(task'[t].calls) : task'[t].calls[i][2] # "klipper"

\* C9: the update() calls of a full update are a prefix of: system (when
\* configured), every client in map order, klipper, moonraker; so each
\* deployment is updated at most once; the task owns the lock from its first
\* call to its end; and the update() of klipper is left out only when the
\* klipper deployment is not an app-type deployment at that moment.
C9_FullUpdateOrder ==
    /\ [](\A t \in RequestTasks :
              task[t].kind = "full" => FullUpdateInOrder(t))
    /\ [][\A t \in RequestTasks :
              SkipsKlipper(t) => ~IsAppDeploy(updaters["klipper"].cls)]_vars

\* a full update has run all its phases, two clients among them
C9_Witness ==
    \E t \in RequestTasks :
        /\ task[t].kind = "full"
        /\ task[t].pc = "done"
        /\ UpdateNames(t) = FirstPhases \o <<"klipper", "moonraker">>
        /\ Len(FirstPhases) = 2
        /\ \A i \in 1 .. 2 : IsClient(FirstPhases[i])

\* C10: when the call of a phase of a full update raises, the full update
\* ends without another call, its last notification is the error that names
\* the failing deployment, with complete = true; when klipper failed, the
\* update() of moonraker was never started.
C10_FailureEndsFullUpdate ==
    \A t \in RequestTasks :
        (task[t].kind = "full" /\ task[t].failed # None)
        => /\ task[t].pc = "done"
           /\ task[t].calls[Len(task[t].calls)][2] = task[t].failed
           /\ task[t].last_note =
                  [message |-> <<"Error updating", task[t].failed>>,
                   application |-> "full",
                   proc_id |-> t,
                   complete |-> TRUE]
           /\ task[t].failed = "klipper" =>
                  \A i \in 1 .. Len(task[t].calls) :
                      task[t].calls[i][2] # "moonraker"

\* the update() of klipper has raised in a full update that had updated the
\* system packages and the clients
C10_Witness ==
    \E t \in RequestTasks :
        /\ task[t].kind = "full"
        /\ task[t].pc = "done"
        /\ task[t].failed = "klipper"
        /\ UpdateNames(t) = FirstPhases \o <<"klipper">>
        /\ "system" \in DOMAIN updaters
        /\ Len(UpdateNames(t)) = 3


\* a request task of the given kind returns in this step
Returns(t, kind) ==
    /\ task[t].pc # "done"
    /\ task'[t].kind = kind
    /\ task'[t].pc = "done"

\* C11: a full update always returns its acknowledgement, also when a phase
\* failed; when it returns the session is clear and the lock is not held; it
\* never calls rollback(); the step in which a phase fails leaves the
\* deployments of the other phases and the package catalog as they were, and
\* nothing a full update does puts packages back into the catalog.
C11_FullUpdateNeverRaises ==
    [][\A t \in RequestTasks :
          /\ Returns(t, "full") =>
                /\ task'[t].result = "ok"
                /\ cmd_helper' = ClearHelper
                /\ ~cmd_request_lock'.locked
                /\ cmd_request_lock'.owner = NoTask
                /\ \A i \in 1 .. Len(task'[t].calls) :
                       task'[t].calls[i][1] # "rollback"
                /\ task'[t].failed # None =>
                       /\ \A n \in DOMAIN updaters \ {task'[t].failed} :
                              updaters'[n] = updaters[n]
                       /\ available_packages' = available_packages
          /\ (task[t].kind = "full" /\ cmd_request_lock.owner = t) =>
                available_packages' \in {available_packages, <<>>}]_vars

\* the update of moonraker has failed in a full update that had updated the
\* system packages, the clients and klipper; the catalog is still empty
C11_Witness ==
    \E t \in RequestTasks :
        /\ task[t].kind = "full"
        /\ task[t].pc = "done"
        /\ task[t].failed = "moonraker"
        /\ task[t].result = "ok"
        /\ UpdateNames(t) = FirstPhases \o <<"klipper", "moonraker">>
        /\ "system" \in DOMAIN updaters
        /\ available_packages = <<>>
        /\ cmd_helper = ClearHelper
        /\ ~cmd_request_lock.locked

\* C12: when the wait for klippy has timed out in a full update, the
\* 'Klippy reconnect timed out...' notification has been sent, no phase has
\* failed because of it, the update() of moonraker is started next, and when
\* that phase succeeds the full update ends with 'Full Update Complete',
\* complete = true.
C12_TimeoutIsNotFatal ==
    \A t \in RequestTasks :
        (task[t].kind = "full" /\ task[t].timed_out)
        => /\ task[t].pc \in {"full:moonraker", "full:mrestart", "done"}
           /\ task[t].failed \in {None, "moonraker"}
           /\ \E i \in 1 .. Len(task[t].calls) :
                  /\ task[t].calls[i][1] = "update"
                  /\ task[t].calls[i][2] = "moonraker"
           /\ task[t].pc = "full:moonraker" =>
                  /\ task[t].failed = None
                  /\ task[t].last_note =
                         [message |-> <<"Klippy reconnect timed out...", None>>,
                          application |-> "full",
                          proc_id |-> t,
                          complete |-> FALSE]
           /\ (task[t].pc = "done" /\ task[t].failed = None) =>
                  /\ task[t].result = "ok"
                  /\ task[t].last_note =
                         [message |-> <<"Full Update Complete", None>>,
                          application |-> "full",
                          proc_id |-> t,
                          complete |-> TRUE]

\* a full update whose wait for klippy timed out has ended with success
C12_Witness ==
    \E t \in RequestTasks :
        /\ task[t].kind = "full"
        /\ task[t].timed_out
        /\ task[t].pc = "done"
        /\ task[t].failed = None
        /\ task[t].last_note.message = <<"Full Update Complete", None>>


(***************************************************************************)
(* Properties of the status and refresh requests.                          *)
(***************************************************************************)
\* a request of the given kind arrives in this step
Arrives(t, kind) ==
    /\ task[t].kind = "idle"
    /\ task'[t].kind = kind

\* the request is answered in the step in which it arrives, without touching
\* the lock and without a Deployment call
AnsweredAtOnce(t, result) ==
    /\ task'[t].pc = "done"
    /\ task'[t].result = result
    /\ task'[t].calls = <<>>
    /\ cmd_request_lock' = cmd_request_lock

\* C13: a status request with refresh = false is answered with the snapshot
\* in the step in which it arrives, whoever holds the lock: it neither takes
\* nor waits for the lock and calls no refresh().
C13_PlainStatusNeverLocks ==
    [][\A t \in RequestTasks :
          (Arrives(t, "status") /\ ~task'[t].asked)
          => AnsweredAtOnce(t, "snapshot")]_vars

\* a status request without refresh has been answered while an update held
\* the lock
C13_Witness ==
    \E t \in RequestTasks :
        /\ task[t].kind = "status"
        /\ ~task[t].asked
        /\ task[t].pc = "done"
        /\ task[t].result = "snapshot"
        /\ cmd_request_lock.locked
        /\ cmd_request_lock.owner \in RequestTasks \ {t}

\* C14: a status request with refresh = true that arrives while the device
\* prints, an update session is active, validation is pending or the initial
\* refresh has not completed is answered with the snapshot in the step in
\* which it arrives: no lock, no refresh(), no error.
C14_RefreshDowngraded ==
    [][\A t \in RequestTasks :
          (Arrives(t, "status") /\ task'[t].asked /\ ServerBusy)
          => AnsweredAtOnce(t, "snapshot")]_vars

\* a status request that asked for a refresh was answered without one
\* because an update session was active
C14_Witness ==
    \E t \in RequestTasks :
        /\ task[t].kind = "status"
        /\ task[t].asked
        /\ task[t].pc = "done"
        /\ task[t].result = "snapshot"
        /\ task[t].calls = <<>>
        /\ is_update_busy(cmd_helper)
        /\ ~validation_enabled
        /\ ~is_printing
        /\ initial_refresh_complete


(***************************************************************************)
(* C15.  The anti-spam window of request_status(refresh=true).             *)
(***************************************************************************)
\* some deployment was refreshed less than SPAM_WINDOW seconds ago
RefreshedRecently ==
    \E n \in DOMAIN updaters : now < updaters[n].lrt + SPAM_WINDOW

\* in this step a status request that still asks for a refresh gets the lock
GetsLock(t) ==
    /\ task'[t].kind = "status"
    /\ task'[t].asked
    /\ task'[t].pc \in {"done", "status:refresh"}
    /\ \/ task[t].pc = "wait"
       \/ task[t].kind = "idle" /\ ~ServerBusy

RefreshedNames(tr) == [i \in 1 .. Len(tr.calls) |-> tr.calls[i][2]]

\* the deployments a refresh request names: all of them, in the order of the
\* map, or the one
NamedBy(app) == IF app = None THEN order ELSE <<app>>

WaitsFor(l, t) == \E i \in 1 .. Len(l.waiters) : l.waiters[i] = t

\* the tick of this step returns at once: it takes no lock and refreshes
\* nothing
TickSkips ==
    /\ task'[MainTask].pc = "done"
    /\ task'[MainTask].result
          \in {"outside update hours", "printing", "validation pending"}
    /\ task'[MainTask].calls = <<>>
    /\ cmd_request_lock' = cmd_request_lock
    /\ updaters' = updaters
    /\ available_packages' = available_packages

\* the tick of this step attempts a refresh: it asks for the lock and, once
\* it has it, calls refresh() on the first deployment that needs one or
\* finds that none does
TickAttempts ==
    \/ /\ task'[MainTask].pc = "wait"
       /\ WaitsFor(cmd_request_lock', MainTask)
    \/ /\ task'[MainTask].pc = "auto:refresh"
       /\ cmd_request_lock'.owner = MainTask
       /\ Len(task'[MainTask].calls) = 1
       /\ task'[MainTask].calls[1][1] = "refresh"
    \/ /\ task'[MainTask].pc = "done"
       /\ task'[MainTask].result = "refreshed"

\* C17 as stated, with initial_refresh_complete read as 'the first pass has
\* succeeded': before it every tick attempts a refresh whatever the hour and
\* whether the device prints or not; after it a tick attempts a refresh only
\* when the hour is below 4 and the device does not print, and otherwise
\* refreshes nothing and takes no lock.
C17_WindowAfterFirstPass ==
    [][Arrives(MainTask, "auto") =>
          IF ~initial_refresh_complete
          THEN TickAttempts
          ELSE IF task'[MainTask].cur_hour < MAX_UPDATE_HOUR /\ ~is_printing
               THEN TickAttempts \/ TickSkips
               ELSE TickSkips]_vars

\* C17, amended: a tick skips when initial_refresh_complete is set and the
\* hour is 4 or later or the device prints, and it skips when validation is
\* pending, whatever the flag; every other tick attempts a refresh.  While
\* the flag is clear neither the hour nor a print keeps a tick from its
\* attempt.  The flag is set by every tick that is not skipped for the hour
\* or the print: by a pass that succeeded, by a pass that a refresh() aborted
\* and by the skip for a pending validation.
C17_WindowOnceMarked ==
    /\ [][Arrives(MainTask, "auto") =>
             IF \/ /\ initial_refresh_complete
                   /\ \/ task'[MainTask].cur_hour >= MAX_UPDATE_HOUR
                      \/ is_printing
                \/ validation_enabled
             THEN TickSkips
             ELSE TickAttempts]_vars
    /\ [][(initial_refresh_complete' /\ ~initial_refresh_complete)
             => /\ task'[MainTask].pc = "done"
                /\ task'[MainTask].result
                      \in {"validation pending", "refresh raised",
                           "refreshed"}]_vars

\* before the flag is set a tick attempts a refresh at hour 4 while the
\* device prints
C17_Witness ==
    /\ task[MainTask].kind = "auto"
    /\ task[MainTask].pc = "auto:refresh"
    /\ task[MainTask].cur_hour >= MAX_UPDATE_HOUR
    /\ is_printing
    /\ ~initial_refresh_complete

\* C18: a tick that has returned, by whichever return statement, has
\* returned eventtime + 3600 and the timer is set to that time; after the
\* return for a pending validation, after a pass that a refresh() aborted
\* and after a pass that succeeded initial_refresh_complete is set and the
\* tick neither holds the lock nor waits for it, so that a status request
\* with refresh = true is not downgraded for an incomplete initial refresh.
C18_TickReschedules ==
    \A t \in {MainTask} :
       (task[t].kind = "auto" /\ task[t].pc = "done")
       => /\ task[t].result \in {"outside update hours", "printing",
                                 "validation pending", "refresh raised",
                                 "refreshed"}
          /\ task[t].ret = task[t].eventtime + 3600
          /\ next_tick = task[t].eventtime + 3600
          /\ cmd_request_lock.owner # t
          /\ ~WaitsFor(cmd_request_lock, t)
          /\ task[t].result \in {"validation pending", "refresh raised",
                                 "refreshed"}
                => /\ initial_refresh_complete
                   /\ (~validation_enabled /\ ~is_printing
                       /\ ~is_update_busy(cmd_helper))
                         => check_refresh_value(TRUE)

\* the first pass was aborted by a refresh() that raised
C18_Witness ==
    /\ task[MainTask].kind = "auto"
    /\ task[MainTask].pc = "done"
    /\ task[MainTask].result = "refresh raised"
    /\ task[MainTask].eventtime = 0
    /\ initial_refresh_complete
    /\ ~cmd_request_lock.locked

(***************************************************************************)
(* C19, C20.  refresh() of the deployments.                                *)
(***************************************************************************)
RefreshPcs == {"status:refresh", "refresh:refresh", "auto:refresh",
               "krepo:refresh"}

\* in this step the refresh() that task t awaits returns or raises
RefreshEnds(t) ==
    /\ task[t].pc \in RefreshPcs
    /\ task'[t] # task[t]

\* the deployment object the refresh() was called on is still registered
StillRegistered(ref) ==
    /\ ref.name \in DOMAIN updaters
    /\ updaters[ref.name].gen = ref.gen

C20_FailurePersistsUnknown ==
    [][\A t \in Tasks :
          (/\ RefreshEnds(t)
           /\ task'[t].outcome = "fail"
           /\ StillRegistered(task[t].ref))
          => LET n == task[t].ref.name
             IN /\ task[t].ref.cls = "PackageDeploy"
                      => updaters'[n].stored.packages = <<>>
                /\ task[t].ref.cls = "WebClientDeploy"
                      => updaters'[n].stored.remote_version
                            = UnknownVersion]_vars

(***************************************************************************)
(* PackageDeploy                                                           *)
(***************************************************************************)
\* what "command -v apt" and AptCliProvider.initialize made of the fallback
CliProbeSucceeds == package_deploy.apt_found /\ package_deploy.apt_ok

\* C21: after initialize() there is exactly one provider, the first that
\* succeeds: PackageKit when it is enabled and its initialization succeeds,
\* else the apt provider when the probe for it succeeds, else
\* BasePackageProvider; the warning is added once with BasePackageProvider
\* and never otherwise, so not when PackageKit raises and apt is found
C21_ProviderSelection ==
    package_deploy.pc = "ready" =>
        /\ package_deploy.provider =
               IF package_deploy.use_packagekit /\ package_deploy.pkgkit_ok
               THEN "PackageKitProvider"
               ELSE IF CliProbeSucceeds THEN "AptCliProvider"
               ELSE "BasePackageProvider"
        /\ package_deploy.warnings =
               IF package_deploy.provider = "BasePackageProvider"
               THEN 1 ELSE 0
        /\ (/\ package_deploy.use_packagekit
            /\ ~package_deploy.pkgkit_ok
            /\ CliProbeSucceeds)
           => /\ package_deploy.provider = "AptCliProvider"
              /\ package_deploy.warnings = 0

C21_Witness ==
    /\ package_deploy.pc = "ready"
    /\ package_deploy.use_packagekit
    /\ ~package_deploy.pkgkit_ok
    /\ CliProbeSucceeds
    /\ package_deploy.provider = "AptCliProvider"
    /\ package_deploy.warnings = 0

\* C22: update() on an empty catalog returns False and calls no provider
\* method; when refresh_packages and upgrade_system succeed it returns True
\* and the catalog is empty, in memory and in the database; when one of them
\* raises, update() raises and the catalog stays as it was
C22_UpdateConsumesCatalog ==
    [][\A refreshed, upgraded \in {"ok", "raise"} :
          PackageUpdate(refreshed, upgraded) =>
              LET cat == package_deploy.available_packages
                  pd == package_deploy'
              IN IF cat = <<>>
                 THEN /\ pd.ret = "false"
                      /\ pd.calls = <<>>
                      /\ pd.available_packages = <<>>
                      /\ pd.stored = package_deploy.stored
                 ELSE IF refreshed = "ok" /\ upgraded = "ok"
                 THEN /\ pd.ret = "true"
                      /\ pd.available_packages = <<>>
                      /\ pd.stored = <<>>
                 ELSE /\ pd.ret = "raised"
                      /\ pd.available_packages = cat
                      /\ pd.stored = package_deploy.stored]_vars

C22_Witness ==
    /\ package_deploy.ret = "true"
    /\ package_deploy.calls = <<"refresh_packages", "upgrade_system">>
    /\ package_deploy.available_packages = <<>>
    /\ package_deploy.stored = <<>>

(***************************************************************************)
(* PackageKitTransaction                                                   *)
(***************************************************************************)
\* C23: a run() of a transaction that was run before, still running or
\* finished, raises, leaves the future and what it holds alone, and creates
\* no second _start_transaction task
C23_RunOnlyOnce ==
    [][\A notify \in BOOLEAN :
          (Run(notify) /\ transaction.tfut # None) =>
              /\ transaction'.run_errors = transaction.run_errors + 1
              /\ transaction'.tfut = transaction.tfut
              /\ transaction'.value = transaction.value
              /\ transaction'.start = transaction.start
              /\ transaction'.backend_calls = 1]_vars

C23_Witness ==
    /\ transaction.runs = 2
    /\ transaction.run_errors = 1
    /\ transaction.backend_calls = 1
    /\ transaction.tfut = "result"

\* C24: whatever the backend sends after run(), set_result or set_exception
\* is never called on a future that is done
C24_SettledOnce ==
    transaction.invalid = 0

\* C25: an error signal stores its text and leaves the future alone; a
\* finish signal that finds the future pending settles it, on failure with
\* the text of the latest error signal or, without one, with the text of
\* the exit code, on success with the result list
C25_ErrorThenFinish ==
    [][/\ \A details \in ErrorTexts :
             OnErrorCode(details) =>
                 /\ transaction'.tfut = transaction.tfut
                 /\ transaction'.value = transaction.value
                 /\ transaction'.err_msg = details
       /\ \A exit \in Exits :
             (OnFinished(exit) /\ transaction.tfut = "pending") =>
                 IF exit = "success"
                 THEN /\ transaction'.tfut = "result"
                      /\ transaction'.value = transaction.result
                 ELSE /\ transaction'.tfut = "exception"
                      /\ transaction'.value =
                             IF transaction.err_msg \in ErrorTexts
                             THEN transaction.err_msg ELSE "exit failed"
       /\ (transaction'.err_msg # transaction.err_msg) =>
              \E details \in ErrorTexts : OnErrorCode(details)]_vars

C25_Witness ==
    /\ transaction.tfut = "exception"
    /\ transaction.finished
    /\ transaction.value = "no-cache"
    /\ transaction.err_msg = "no-cache"

\* the records and the lines of the step
Appended == Len(transaction'.result) - Len(transaction.result)
Noted == Len(transaction'.notes) - Len(transaction.notes)

\* C26 as stated: a package or repository signal appends one record and
\* notifies nothing in each of the four query roles, and appends nothing in
\* any other role
C26_EveryQueryRoleAppends ==
    [][((\E info \in Infos, package_id \in PackageIds :
            OnPackage(info, package_id))
        \/ \E repo_id \in {"main"} : OnRepoDetail(repo_id)) =>
           IF transaction.role \in QUERY_ROLES
           THEN Appended = 1 /\ Noted = 0
           ELSE Appended = 0 /\ Noted \in {0, 1}]_vars

\* C26: a package signal appends its record, last, in the roles resolve,
\* get_packages and get_updates, a repository signal in the role
\* get_repo_list; no signal notifies in a query role; every other signal
\* appends nothing and notifies at most once; a successful finish settles
\* the pending future with the records in the order of their arrival
C26_ItemSignals ==
    [][/\ \A info \in Infos, package_id \in PackageIds :
             OnPackage(info, package_id) =>
                 IF transaction.role \in GET_PKG_ROLES
                 THEN /\ transaction'.result =
                             Append(transaction.result,
                                    <<"package", package_id>>)
                      /\ Noted = 0
                 ELSE /\ Appended = 0
                      /\ Noted \in {0, 1}
                      /\ transaction.role \in QUERY_ROLES => Noted = 0
       /\ \A repo_id \in {"main"} :
             OnRepoDetail(repo_id) =>
                 IF transaction.role = "get_repo_list"
                 THEN /\ transaction'.result =
                             Append(transaction.result, <<"repo", repo_id>>)
                      /\ Noted = 0
                 ELSE /\ Appended = 0
                      /\ Noted \in {0, 1}
                      /\ transaction.role \in QUERY_ROLES => Noted = 0
       /\ (OnFinished("success") /\ transaction.tfut = "pending") =>
              transaction'.value = transaction.result]_vars

C26_Witness ==
    /\ transaction.role = "get_updates"
    /\ transaction.tfut = "result"
    /\ transaction.value = <<<<"package", "vim">>, <<"package", "curl">>>>
    /\ transaction.notes = <<>>

\* C27: when run() was asked to notify and no query role was set, setting
\* the percentage to 0..100 adds one progress line in the statuses running,
\* install and update and none in any other status
C27_ProgressLines ==
    [][\A percent \in Percentages :
          (/\ OnPropertiesChanged("percentage", percent)
           /\ transaction.run_notify
           /\ ~transaction.was_query) =>
              IF transaction.status \in PROGRESS_STATUS
              THEN transaction'.notes = Append(transaction.notes, "progress")
              ELSE transaction'.notes = transaction.notes]_vars

C27_Witness ==
    /\ transaction.role = "install_packages"
    /\ transaction.status = "install"
    /\ transaction.percentage = 55
    /\ transaction.tfut = "result"
    /\ transaction.notes = <<"started", "progress", "progress", "exit">>

\* C28: from the step that sets a query role on, the transaction hands no
\* line to notify_update_response, whatever run() was asked and whatever
\* role is set later
C28_QueryRoleSilences ==
    [][transaction'.was_query =>
           /\ transaction'.notes = transaction.notes
           /\ ~transaction'.notify]_vars

C28_Witness ==
    /\ transaction.run_notify
    /\ transaction.was_query
    /\ transaction.role = "install_packages"
    /\ transaction.status = "install"
    /\ transaction.percentage = 55
    /\ transaction.tfut = "result"

\* C29: once _start_transaction has raised, at the creation, the
\* subscription or the call, the future is settled, and unless a finish
\* signal was delivered it holds that exception
C29_StartFailureSettles ==
    transaction.start = "raised" =>
        /\ transaction.tfut \in {"result", "exception"}
        /\ ~transaction.finished =>
               /\ transaction.tfut = "exception"
               /\ transaction.value \in {"create", "subscribe", "call"}

C29_Witness ==
    /\ transaction.start = "raised"
    /\ ~transaction.finished
    /\ transaction.tfut = "exception"
    /\ transaction.value = "call"
    /\ transaction.signals > 0

(***************************************************************************)
(* CommandHelper.run_cmd                                                   *)
(***************************************************************************)
\* the calls of scmd.run() that returned False
FailedTries ==
    {i \in 1 .. Len(shell_command.tries) : ~shell_command.tries[i].ok}

\* C30: run_cmd(retries = n) calls scmd.run() at most n times, each time
\* with the timeout it was given, makes no call after one that succeeded,
\* and raises "Shell Command Error" exactly when it has made n calls that
\* all failed, which with n = 0 is at once
C30_RunCmdRetries ==
    LET tries == shell_command.tries
        n == shell_command.retries
    IN /\ Len(tries) <= n
       /\ \A i \in 1 .. Len(tries) : tries[i].timeout = shell_command.timeout
       /\ \A i \in 1 .. Len(tries) - 1 : ~tries[i].ok
       /\ shell_command.pc = "run" =>
              /\ FailedTries = 1 .. Len(tries)
              /\ Len(tries) < n
       /\ shell_command.pc = "done" =>
              /\ shell_command.ret \in {"ok", "Shell Command Error"}
              /\ shell_command.ret = "Shell Command Error" <=>
                     (Len(tries) = n /\ FailedTries = 1 .. n)
              /\ shell_command.ret = "ok" =>
                     tries[Len(tries)].ok

C30_Witness ==
    /\ shell_command.pc = "done"
    /\ shell_command.retries = 3
    /\ Len(shell_command.tries) = 3
    /\ shell_command.ret = "Shell Command Error"

(***************************************************************************)
(* Properties of the notifications, of the reconnect handshake and of the  *)
(* klipper deployment.                                                     *)
(***************************************************************************)
\* C34: as long as a full update has not ended none of its notifications
\* carried complete = true; when it has ended exactly one did, it is the last
\* notification of the task and it is tagged with the session "full".
C34_OneCompleteNote ==
    \A t \in RequestTasks :
        task[t].kind = "full" =>
            IF task[t].pc = "done"
            THEN /\ task[t].ncomplete = 1
                 /\ task[t].last_note.complete
                 /\ task[t].last_note.application = "full"
                 /\ task[t].last_note.proc_id = t
            ELSE /\ task[t].ncomplete = 0
                 /\ task[t].last_note # NoNote => ~task[t].last_note.complete

\* a full update is in its last phase after the 'finished' lines of three
\* deployments, and none of its notifications was complete
C34_Witness ==
    \E t \in RequestTasks :
        /\ task[t].kind = "full"
        /\ task[t].pc = "full:moonraker"
        /\ Len(task[t].calls) >= 4
        /\ task[t].last_note.message = <<"Update finished", None>>
        /\ task[t].ncomplete = 0

\* C35: every request_update that took the lock has ended with exactly one
\* notification with complete = true, tagged with its target and its request
\* id, whether update() applied a change, found nothing to do or raised.
C35_UpdateEndsComplete ==
    \A t \in RequestTasks :
        (/\ task[t].kind = "update"
         /\ task[t].pc = "done"
         /\ task[t].calls # <<>>)
        => /\ task[t].ncomplete = 1
           /\ task[t].last_note.complete
           /\ task[t].last_note.application = task[t].app
           /\ task[t].last_note.proc_id = t

\* the positions of the klipper phase of a full update
KlipperPhasePcs == {"full:klipper", "full:krestart", "full:kwait"}

\* a full update moves on from the given position without having failed
MovesOn(t, pc) ==
    /\ task[t].pc = pc
    /\ task'[t].pc \notin {pc, "done"}

\* C36: when the update() of klipper has returned in a full update,
\* restart_service() is called if and only if "klipper" is among the pending
\* restarts; the wait for klippy starts at once if and only if no restart is
\* pending and update() returned true; the update() of moonraker starts at
\* once if and only if no restart is pending and update() returned false; a
\* restart that succeeded is always followed by the wait, and the wait is
\* entered from nowhere else.  The klipper phase is entered only with an
\* app-type deployment, and is passed over only without one.
C36_KlipperPhase ==
    [][\A t \in RequestTasks :
          LET restart == "klipper" \in cmd_helper'.pending_service_restarts
          IN /\ MovesOn(t, "full:klipper") =>
                   /\ task'[t].pc = "full:krestart" <=> restart
                   /\ task'[t].pc = "full:kwait" <=>
                          (~restart /\ task'[t].outcome = "true")
                   /\ task'[t].pc = "full:moonraker" <=>
                          (~restart /\ task'[t].outcome = "false")
                   /\ restart =>
                          task'[t].calls[Len(task'[t].calls)][1] =
                              "restart_service"
             /\ MovesOn(t, "full:krestart") => task'[t].pc = "full:kwait"
             /\ (task[t].pc # "full:kwait" /\ task'[t].pc = "full:kwait") =>
                   task[t].pc \in {"full:klipper", "full:krestart"}
             /\ (task[t].pc \notin KlipperPhasePcs
                 /\ task'[t].pc \in KlipperPhasePcs) =>
                   /\ task'[t].pc = "full:klipper"
                   /\ IsAppDeploy(updaters["klipper"].cls)
             /\ SkipsKlipper(t) => ~IsAppDeploy(updaters["klipper"].cls)]_vars

\* the update() of klipper changed nothing, the restart of klipper that the
\* update of another application had postponed was made, and the full update
\* waits for klippy
C36_Witness ==
    \E t \in RequestTasks :
        /\ task[t].kind = "full"
        /\ task[t].pc = "full:kwait"
        /\ task[t].outcome = "false"
        /\ task[t].calls[Len(task[t].calls)] =
               <<"restart_service", "klipper", task[t].ref.gen>>

\* a full update went from the update() of klipper, which changed nothing,
\* straight to the update() of moonraker
C36_WitnessNoWait ==
    \E t \in RequestTasks :
        /\ task[t].kind = "full"
        /\ task[t].pc = "full:moonraker"
        /\ task[t].outcome = "false"
        /\ ~task[t].timed_out
        /\ task[t].calls[Len(task[t].calls) - 1][2] = "klipper"

\* some full update is in its klipper phase before and after the step
PhaseGoesOn ==
    \E t \in RequestTasks :
        /\ task[t].pc \in KlipperPhasePcs
        /\ task'[t].pc \in KlipperPhasePcs

\* C37: from the start of the klipper phase of a full update to the end of
\* its wait there is an event for klippy's identification to set; an
\* identification that arrives in between sets it, whether the update(), the
\* restart or the wait is in progress; once set it stays set until the wait
\* has ended; and a wait that ends while the event is set ends with 'Klippy
\* Reconnected', not with the timeout.
C37_NoLostWakeup ==
    [][/\ \A t \in RequestTasks :
             task[t].pc \in KlipperPhasePcs => klippy_identified_evt # None
       /\ (/\ PhaseGoesOn
           /\ \E valid \in BOOLEAN, kinfo \in KlippyInfos :
                 KlippyIdentified(valid, kinfo))
          => klippy_identified_evt' = "set"
       /\ (PhaseGoesOn /\ klippy_identified_evt = "set")
          => klippy_identified_evt' = "set"
       /\ \A t \in RequestTasks :
             (/\ task[t].pc = "full:kwait"
              /\ task'[t].pc # "full:kwait"
              /\ klippy_identified_evt = "set")
             => /\ task'[t].pc = "full:moonraker"
                /\ ~task'[t].timed_out
                /\ task'[t].last_note.message =
                       <<"Klippy Reconnected", None>>]_vars

\* klippy identified itself while restart_service() was running, before the
\* wait had started
C37_Witness ==
    \E t \in RequestTasks :
        /\ task[t].kind = "full"
        /\ task[t].pc = "full:krestart"
        /\ klippy_identified_evt = "set"

\* C38: a status request holds the lock exactly while it refreshes; it gives
\* the lock up only in the step in which it returns or raises, by one
\* release() of the lock it holds (or has just been handed); a request that
\* ends in the step in which it arrived, without the lock or after the
\* anti-spam bypass, leaves the lock as it found it; and once a request has
\* ended it neither owns the lock nor waits for it.
C38_StatusLockBalanced ==
    [][\A t \in RequestTasks :
          /\ (task[t].kind = "status" /\ task[t].pc = "status:refresh") =>
                (cmd_request_lock.locked /\ cmd_request_lock.owner = t)
          /\ (task[t].kind = "status" /\ task[t].pc = "wait") =>
                cmd_request_lock.owner # t
          /\ (/\ task[t].kind = "status"
              /\ cmd_request_lock.owner = t
              /\ cmd_request_lock'.owner # t) => task'[t].pc = "done"
          /\ Returns(t, "status") =>
                /\ cmd_request_lock'.owner # t
                /\ \A i \in 1 .. Len(cmd_request_lock'.waiters) :
                       cmd_request_lock'.waiters[i] # t
                /\ cmd_request_lock' =
                       IF cmd_request_lock.owner = t
                       THEN LockRelease(cmd_request_lock)
                       ELSE IF task[t].pc = "wait"
                       THEN LockRelease(LockResume(cmd_request_lock, t))
                       ELSE cmd_request_lock]_vars

\* the refresh() of the second deployment raised in a status request while
\* the refresh timer waited for the lock: the lock is free and handed on
C38_Witness ==
    \E t \in RequestTasks :
        /\ task[t].kind = "status"
        /\ task[t].pc = "done"
        /\ task[t].result = "raised"
        /\ Len(task[t].calls) >= 2
        /\ ~cmd_request_lock.locked
        /\ cmd_request_lock.woken

\* a status request that asked for a refresh of a server that was not busy
\* was turned away by the anti-spam check: it has returned without a
\* refresh() and the lock is free
C38_WitnessBypass ==
    \E t \in RequestTasks :
        /\ task[t].kind = "status"
        /\ task[t].pc = "done"
        /\ task[t].asked
        /\ task[t].calls = <<>>
        /\ ~ServerBusy
        /\ RefreshedRecently
        /\ ~cmd_request_lock.locked

\* C39: while a task is inside a locked section in which it works on the
\* klipper deployment, the deployment registered under "klipper" is the one
\* the task works on.
C39_KlipperNotReplaced ==
    \A t \in Tasks :
        (InSection(t) /\ task[t].ref.name = "klipper")
        => task[t].ref.gen = updaters["klipper"].gen

\* what the database holds under a name of which nothing was saved
NothingStored == get_persistent_data("BaseDeploy", <<>>, UnknownVersion)

\* the Deployment calls _update_klipper_repo makes, in order
KRepoCalls(t) ==
    << <<"initialize", "klipper", task[t].calls[1][3]>>,
       <<"refresh", "klipper", task[t].calls[Len(task[t].calls)][3]>> >>

C32_WitnessQuiet ==
    \E t \in KRepoTasks :
        /\ task[t].kind = "krepo"
        /\ task[t].pc = "done"
        /\ task[t].result = "refreshed"
        /\ ~task[t].flag

(***************************************************************************)
(* Properties of PackageKitProvider and of WebClientDeploy.                *)
(***************************************************************************)
\* C33 as stated: every provider call that has returned opened exactly one
\* transaction.
C33_OneTransactionPerCall ==
    pk_provider.pc = "returned" => pk_provider.created = 1

\* the numbers of transactions a provider call that returned may have opened
TransactionsOf(method) ==
    CASE method \in {"refresh_packages", "get_packages"} -> {1}
      [] method = "install_packages" -> {2, 3}
      [] OTHER -> {1, 2}

\* C33: every run() is made on a transaction object created for it, so a
\* provider call opens as many transactions as it has steps: one for
\* refresh_packages and get_packages, two or three for install_packages, one
\* or two for upgrade_system.  upgrade_system runs get_updates without
\* notification, and when it has returned it either got no package id and
\* ran nothing else, or ran update_packages with notification on exactly the
\* ids get_updates returned, in their order.
C33_UpgradeSystem ==
    LET p == pk_provider
        Installs(i, pkgs) ==
            /\ Len(p.log[i].args) = Len(pkgs)
            /\ \A k \in 1 .. Len(pkgs) : p.log[i].args[k] = pkgs[k][2]
    IN /\ p.created = Len(p.log)
       /\ \A i \in 1 .. Len(p.log) : p.log[i].txn = i
       /\ p.pc = "returned" => Len(p.log) \in TransactionsOf(p.method)
       /\ (p.method = "upgrade_system") =>
             /\ p.log[1] = [txn |-> 1, method |-> "get_updates",
                            args |-> <<>>, notify |-> FALSE]
             /\ Len(p.log) <= 2
             /\ Len(p.log) = 2 =>
                   /\ p.log[2].method = "update_packages"
                   /\ p.log[2].notify
                   /\ p.results[1] # <<>>
                   /\ Installs(2, p.results[1])
             /\ (p.pc = "returned" /\ Len(p.log) = 1) => p.results[1] = <<>>

\* upgrade_system has returned after it installed the two packages that
\* get_updates had found
C33_Witness ==
    /\ pk_provider.method = "upgrade_system"
    /\ pk_provider.pc = "returned"
    /\ Len(pk_provider.log) = 2
    /\ pk_provider.log[2].args = <<"vim;9.0;arm64;debian",
                                "curl;7.88.1;arm64;debian">>
    /\ pk_provider.log[2].notify


\* the database entry was written and moonraker has started again
Reloaded == web_client.op = "initialize" /\ web_client.storage.saved
\* the install directory holds a file that initialize() reads a version from
DiskHasVersion == web_client.disk.files \in {"release_info", "dot_version"}

\* C31 as stated: after initialize() has reloaded a database entry that
\* get_persistent_data() wrote, version, rollback_version, rollback_repo and
\* last_error are those of the entry.
C31_RoundTrip ==
    Reloaded =>
        /\ web_client.version = web_client.storage.version
        /\ web_client.rollback_version = web_client.storage.rollback_version
        /\ web_client.rollback_repo = web_client.storage.rollback_repo
        /\ web_client.last_error = web_client.storage.last_error

\* C31: after initialize() has reloaded a database entry that
\* get_persistent_data() wrote, rollback_version, rollback_repo and
\* last_error are those of the entry; version is the one read from
\* release_info.json or .version in the install directory when there is
\* one, and the entry's otherwise; the two differ only when an extraction
\* has failed since the last release was installed.
C31_ReloadedState ==
    Reloaded =>
        /\ web_client.rollback_version = web_client.storage.rollback_version
        /\ web_client.rollback_repo = web_client.storage.rollback_repo
        /\ web_client.last_error = web_client.storage.last_error
        /\ web_client.version =
              IF DiskHasVersion THEN strip(web_client.disk.text)
              ELSE web_client.storage.version
        /\ ~web_client.torn =>
              web_client.version = web_client.storage.version

\* a database entry with a version, rollback data other than the version and
\* an error text has been reloaded
C31_Witness ==
    /\ Reloaded
    /\ web_client.version = "v2"
    /\ web_client.rollback_version = "v1"
    /\ web_client.rollback_repo = ClientRepo
    /\ web_client.last_error # ""
    /\ web_client.storage.version = "v2"

\* a reload after a failed extraction: the version is the directory's, not
\* the entry's
C31_WitnessTorn ==
    /\ Reloaded
    /\ web_client.torn
    /\ DiskHasVersion
    /\ web_client.version # web_client.storage.version
    /\ web_client.version = strip(web_client.disk.text)

\* the fields of the deployment, its files and its database entry are the
\* same in w0 and w
SameClient(w0, w) ==
    /\ w.version = w0.version
    /\ w.remote_version = w0.remote_version
    /\ w.rollback_version = w0.rollback_version
    /\ w.rollback_repo = w0.rollback_repo
    /\ w.last_error = w0.last_error
    /\ w.dl_url = w0.dl_url
    /\ w.valid = w0.valid
    /\ w.disk = w0.disk
    /\ w.storage = w0.storage

\* a step of rollback()
RollbackStep == web_client' # web_client /\ web_client'.op = "rollback"
RollbackDataUnknown(w) == w.rollback_version = "?" \/ w.rollback_repo = "?"

\* rollback() raises and changes nothing when rollback_version or
\* rollback_repo is '?', returns False and changes nothing when
\* rollback_version is the version, and never changes rollback_version and
\* rollback_repo
RollbackRefusals ==
    [][RollbackStep =>
        /\ web_client'.rollback_version = web_client.rollback_version
        /\ web_client'.rollback_repo = web_client.rollback_repo
        /\ RollbackDataUnknown(web_client) =>
              /\ web_client'.ret = "raise"
              /\ SameClient(web_client, web_client')
        /\ ~RollbackDataUnknown(web_client)
           /\ web_client.rollback_version = web_client.version =>
              /\ web_client'.ret = "false"
              /\ SameClient(web_client, web_client')]_vars

\* C40: a rollback() that returns True leaves version equal to the
\* rollback_version of before the call and rollback_version and
\* rollback_repo as they were; it raises and changes no field when
\* rollback_version or rollback_repo is '?'; it returns False and changes no
\* field when rollback_version is the version.
C40_RollbackRestores ==
    [][RollbackStep =>
        /\ web_client'.ret = "true" =>
              /\ web_client'.version = web_client.rollback_version
              /\ web_client'.rollback_version = web_client.rollback_version
              /\ web_client'.rollback_repo = web_client.rollback_repo
        /\ RollbackDataUnknown(web_client) =>
              /\ web_client'.ret = "raise"
              /\ SameClient(web_client, web_client')
        /\ ~RollbackDataUnknown(web_client)
           /\ web_client.rollback_version = web_client.version =>
              /\ web_client'.ret = "false"
              /\ SameClient(web_client, web_client')]_vars

\* a rollback() has returned True and the version is the remote version, not
\* the rollback version
RollbackToRemote ==
    /\ web_client.op = "rollback" /\ web_client.ret = "true"
    /\ web_client.version = web_client.remote_version
    /\ web_client.version # web_client.rollback_version
\* rollback() has raised for want of rollback data, has returned False, has
\* returned True with the rollback version installed
WebRollbackRaised ==
    /\ web_client.op = "rollback" /\ web_client.ret = "raise"
    /\ RollbackDataUnknown(web_client)
WebRollbackFalse ==
    /\ web_client.op = "rollback" /\ web_client.ret = "false"
WebRollbackDone ==
    /\ web_client.op = "rollback" /\ web_client.ret = "true"
    /\ web_client.version = web_client.rollback_version

====
